---- MODULE Spec2Model ----
(***************************************************************************)
(* Model of the libnl core: the receive state machine of lib/nl.c          *)
(* (recvmsgs and its entry points), the callback set of lib/handlers.c     *)
(* and the synchronous request path (nl_send_sync, nl_wait_for_ack).       *)
(*                                                                         *)
(* A behaviour is: the application configures the socket's callback set,   *)
(* calls one entry point, and the receive loop runs to its return.  The    *)
(* peer is nondeterministic: every datagram and every frame in it is       *)
(* chosen when the loop reads it; every custom handler returns any of the  *)
(* documented codes.  The steps of the loop are the points where code      *)
(* outside the loop runs (recv, each handler invocation); the code         *)
(* between two such points is deterministic and is computed by the         *)
(* operators MsgIn .. Dispatch, one per section of recvmsgs.               *)
(***************************************************************************)
EXTENDS Integers, Sequences, FiniteSets, TLC

(* ------------------------------ bounds --------------------------------- *)

\* frames the peer delivers during one invocation, divided into datagrams
\* in every possible way
MaxFrames == 3

\* handlers the application installs one by one (nl_cb_set, nl_cb_err)
MaxBound == 1

\* s_seq_next and s_seq_expect are unsigned int and wrap at 2^32; the model
\* keeps the wrap-around and scales the word down to this modulus
SeqModulus == 16

\* longest message the application builds, in octets
MaxLen == 22

\* number of values of an int and of a __u32
WordModulus == 128

(* ------------------------- program constants --------------------------- *)

NL_OK == 0

NL_SKIP == 1

NL_STOP == 2

NLE_NOMEM == 5

NLE_INVAL == 7

NLE_OBJ_NOTFOUND == 12

NLE_SEQ_MISMATCH == 16

NLE_MSG_OVERFLOW == 17

NLE_MSG_TRUNC == 18

NLE_NOADDR == 19

NLE_DUMP_INTR == 33

NLE_FAILURE == 1

NLE_BAD_SOCK == 3

NLE_AF_NOSUPPORT == 11

\* address families: netlink, and the one of an address that is none
AF_NETLINK == 16

AF_UNSPEC == 0

\* NETLINK_ROUTE, the protocol a socket shows before nl_connect stores one
NETLINK_ROUTE == 0

\* most references held on one callback set at a time
MaxRefs == 3

\* errno value carried (negated) by a kernel NACK
ENOENT == 2

\* sizeof(struct nlmsghdr), aligned
NLMSG_HDRLEN == 16

\* sizeof(struct nlmsgerr): int error + struct nlmsghdr
NlmsgerrSize == 20

\* sequence seed of a fresh socket (time of allocation)
Seed == 7

NL_AUTO_SEQ == 0

NL_AUTO_PORT == 0

\* sk->s_local.nl_pid of a connected socket, as getsockname reports it
LocalPort == 4321

\* sk->s_proto of a connected socket: the protocol given to nl_connect
NlProto == 16

\* nlmsg_type of a request of the application (the first type above the
\* control types)
ReqType == 16

(* --------------------------- callback sets ----------------------------- *)

\* enum nl_cb_type
Hooks == {"VALID", "FINISH", "OVERRUN", "SKIPPED", "ACK", "MSG_IN",
          "MSG_OUT", "INVALID", "SEQ_CHECK", "SEND_ACK", "DUMP_INTR"}

\* a slot holds no function, an application function or ack_wait_handler
Handlers == {"NULL", "custom", "ack_wait_handler"}

\* calloc'ed struct nl_cb with kind NL_CB_DEFAULT: every slot empty
nl_cb_alloc == [cb_set |-> [t \in Hooks |-> "NULL"], cb_err |-> "NULL",
                cb_recvmsgs_ow |-> "NULL", cb_recv_ow |-> "NULL",
                cb_send_ow |-> "NULL"]

\* nl_cb_set(cb, type, NL_CB_CUSTOM, func, arg)
cb_set_custom(c, type, func) == [c EXCEPT !.cb_set[type] = func]

\* nl_cb_set_all(cb, NL_CB_CUSTOM, func, arg)
cb_set_all_custom(c, func) == [c EXCEPT !.cb_set = [t \in Hooks |-> func]]

\* nl_cb_err(cb, NL_CB_CUSTOM, func, arg)
cb_err_custom(c, func) == [c EXCEPT !.cb_err = func]

\* nl_cb_clone: memcpy of the original
nl_cb_clone(orig) == orig

\* cb->cb_set[type] != NULL
Bound(c, type) == c.cb_set[type] # "NULL"

\* slots the application has filled
BoundSlots(c) == {t \in Hooks : Bound(c, t)} \cup
                 (IF c.cb_err # "NULL" THEN {"ERR"} ELSE {})

\* codes a handler may return: the three actions or a negative error code
RetVals == {NL_OK, NL_SKIP, NL_STOP, -NLE_INVAL}

\* what the function in a slot returns when called
HandlerRets(fn) == IF fn = "ack_wait_handler" THEN {NL_STOP} ELSE RetVals

(* ------------------------------ frames --------------------------------- *)

NlTypes == {"DATA", "DONE", "ERROR", "NOOP", "OVERRUN"}

NlFlags == {"MULTI", "ACK", "DUMP_INTR"}

\* nlmsg_msg_size
nlmsg_msg_size(payload) == NLMSG_HDRLEN + payload

\* translation of a kernel errno to a library code
nl_syserr2nlerr(error) ==
    LET e == IF error < 0 THEN -error ELSE error
    IN  IF e = ENOENT THEN NLE_OBJ_NOTFOUND ELSE NLE_FAILURE

\* the frames a peer may put at the head of the unread part of a datagram,
\* given the sequence number the socket expects: sequence right or wrong,
\* any flags, any type; an ERROR frame is truncated, an ACK or a NACK
Frames(expect) ==
    LET seqs == {expect, (expect + 2) % SeqModulus}
        plain == [type : NlTypes \ {"ERROR"}, flags : SUBSET NlFlags,
                  seq : seqs, len : {nlmsg_msg_size(0)}, error : {0}]
        trunc == [type : {"ERROR"}, flags : SUBSET NlFlags,
                  seq : seqs, len : {nlmsg_msg_size(0)}, error : {0}]
        full  == [type : {"ERROR"}, flags : SUBSET NlFlags, seq : seqs,
                  len : {nlmsg_msg_size(NlmsgerrSize)}, error : {0, -ENOENT}]
    IN  plain \cup trunc \cup full

NoFrame == [type |-> "NONE", flags |-> {}, seq |-> 0, len |-> 0, error |-> 0]

NLMSG_ALIGNTO == 4

\* NLMSG_ALIGN
NLMSG_ALIGN(len) ==
    ((len + NLMSG_ALIGNTO - 1) \div NLMSG_ALIGNTO) * NLMSG_ALIGNTO

\* nlmsg_total_size
nlmsg_total_size(payload) == NLMSG_ALIGN(nlmsg_msg_size(payload))

(* ----------------------- walking a stream of frames -------------------- *)
(* int and __u32 are WordModulus values wide; an int converted to an      *)
(* unsigned type of that width is its value modulo WordModulus.            *)

IntMin == -(WordModulus \div 2)

IntMax == (WordModulus - 1) \div 2

\* (unsigned) i
ToUnsigned(i) == i % WordModulus

\* nlmsg_ok(nlh, remaining): remaining is an int, sizeof and nlmsg_len are
\* unsigned, so both comparisons with remaining are made on its unsigned
\* conversion
nlmsg_ok(len, remaining) ==
    /\ ToUnsigned(remaining) >= NLMSG_HDRLEN
    /\ len >= NLMSG_HDRLEN
    /\ len <= ToUnsigned(remaining)

\* nlmsg_next that steps over the frame without its padding
nlmsg_next_Unpadded(len, remaining) == remaining - len

\* nlmsg_next(nlh, &remaining): the new value of remaining; nlh moves on by
\* the same NLMSG_ALIGN(nlmsg_len) octets
nlmsg_next(len, remaining) == remaining - NLMSG_ALIGN(len)

\* no stream
NoStream == [lens |-> << >>, size |-> 0]

\* offset of frame i of a stream: the frames before it, each with padding
RECURSIVE FrameOffset(_, _)
FrameOffset(lens, i) ==
    IF i <= 1 THEN 0
    ELSE FrameOffset(lens, i - 1) + NLMSG_ALIGN(lens[i - 1])

\* nlmsg_len values of the frames of a stream
FrameLens == {nlmsg_msg_size(0), nlmsg_msg_size(1), nlmsg_msg_size(4)}

\* streams of k frames laid out with padding between them;
\* the buffer ends behind the padding of the last frame or, for a stream
\* that is not well formed, directly behind its last octet
StreamsOf(k) ==
    UNION {{[lens |-> l, size |-> FrameOffset(l, k + 1)],
            [lens |-> l, size |-> FrameOffset(l, k) + l[k]]} :
              l \in [1 .. k -> FrameLens]}

Streams == UNION {StreamsOf(k) : k \in 1 .. MaxFrames}

\* every frame of the stream is followed by its padding
WellFormed(s) == s.size = FrameOffset(s.lens, Len(s.lens) + 1)

\* nlmsg_len values read from memory that is not the header of a frame
StrayLens == {0, NLMSG_HDRLEN}

\* nlh->nlmsg_len for nlh at offset pos of the stream
HeaderAt(s, pos) ==
    IF \E i \in 1 .. Len(s.lens) : FrameOffset(s.lens, i) = pos
    THEN {s.lens[CHOOSE i \in 1 .. Len(s.lens) :
                     FrameOffset(s.lens, i) = pos]}
    ELSE StrayLens

(* ------------------------- building messages (msg.c) ------------------- *)
(* A struct nl_msg is a record of the header fields of nm_nlh, the         *)
(* protocol, the size of the buffer allocated for nm_nlh (nm_size) and how *)
(* often nlmsg_free was applied; data holds the octets of the buffer       *)
(* behind the header, nm_size - NLMSG_HDRLEN of them.                      *)

\* octets a buffer holds where nothing was written since malloc or realloc
\* handed it out: any value, the same for the whole stretch
Junk == {0, 255}

\* the octets of a frame's payload as they arrive from the socket
FrameOctet == 1

\* __nlmsg_alloc(len): a zeroed buffer of len octets, nlmsg_len = len
nlmsg_alloc_len(len) ==
    [nlmsg_len |-> len, nlmsg_type |-> 0, nlmsg_flags |-> {},
     nlmsg_seq |-> 0, nlmsg_pid |-> 0, nm_protocol |-> -1,
     nm_size |-> len, frees |-> 0,
     data |-> [i \in 1 .. (len - NLMSG_HDRLEN) |-> 0]]

\* nlmsg_alloc
nlmsg_alloc == nlmsg_alloc_len(nlmsg_total_size(0))

\* nlmsg_inherit(hdr) with hdr not NULL: type, flags, seq and pid are taken
\* from the template, its length is not
nlmsg_inherit(h) ==
    [nlmsg_alloc EXCEPT !.nlmsg_type = h.nlmsg_type,
                        !.nlmsg_flags = h.nlmsg_flags,
                        !.nlmsg_seq = h.nlmsg_seq,
                        !.nlmsg_pid = h.nlmsg_pid]

\* nlmsg_alloc_simple(nlmsgtype, flags)
nlmsg_alloc_simple(nlmsgtype, flags) ==
    nlmsg_inherit([nlmsg_len |-> 0, nlmsg_type |-> nlmsgtype,
                   nlmsg_flags |-> flags, nlmsg_seq |-> 0, nlmsg_pid |-> 0])

\* nlmsg_convert(hdr): a buffer of NLMSG_ALIGN(hdr->nlmsg_len) octets, then
\* memcpy of hdr->nlmsg_len octets, the header and its nlmsg_len included
nlmsg_convert(h) ==
    [nlmsg_alloc_len(NLMSG_ALIGN(h.nlmsg_len))
        EXCEPT !.nlmsg_len = h.nlmsg_len,
               !.nlmsg_type = h.nlmsg_type,
               !.nlmsg_flags = h.nlmsg_flags,
               !.nlmsg_seq = h.nlmsg_seq,
               !.nlmsg_pid = h.nlmsg_pid,
               !.data = [i \in 1 .. (NLMSG_ALIGN(h.nlmsg_len) - NLMSG_HDRLEN)
                           |-> IF i <= h.nlmsg_len - NLMSG_HDRLEN
                               THEN FrameOctet ELSE 0]]

\* a & b for non-negative a, b
RECURSIVE BitAnd(_, _)
BitAnd(a, b) ==
    IF a = 0 \/ b = 0 THEN 0
    ELSE (a % 2) * (b % 2) + 2 * BitAnd(a \div 2, b \div 2)

\* tlen of nlmsg_reserve: pad ? ((len + (pad - 1)) & ~(pad - 1)) : len,
\* for pad >= 0
reserve_tlen(len, pad) ==
    IF pad # 0
    THEN (len + (pad - 1)) - BitAnd(len + (pad - 1), pad - 1)
    ELSE len

\* realloc(ptr, size) that succeeds: the octets up to the smaller of the
\* two sizes are kept, new ones hold junk
realloc(octets, size, junk) ==
    [i \in 1 .. size |-> IF i <= Len(octets) THEN octets[i] ELSE junk]

\* nlmsg_reserve that ignores pad
nlmsg_reserve_NoPad(m, len, pad, junk) ==
    [m EXCEPT !.nm_size = m.nlmsg_len + len,
              !.nlmsg_len = m.nlmsg_len + len,
              !.data = realloc(m.data, m.nlmsg_len + len - NLMSG_HDRLEN, junk)]

\* nlmsg_reserve that leaves the padding as realloc returned it
nlmsg_reserve_NoMemset(m, len, pad, junk) ==
    [m EXCEPT !.nm_size = m.nlmsg_len + reserve_tlen(len, pad),
              !.nlmsg_len = m.nlmsg_len + reserve_tlen(len, pad),
              !.data = realloc(m.data, m.nlmsg_len + reserve_tlen(len, pad)
                                         - NLMSG_HDRLEN, junk)]

\* nlmsg_reserve(n, len, pad) when realloc succeeds: the buffer becomes
\* nlmsg_len + tlen octets, nlmsg_len grows by tlen and the tlen - len
\* octets behind the first len of the new room are zeroed
nlmsg_reserve(m, len, pad, junk) ==
    LET tlen == reserve_tlen(len, pad)
        tmp == m.nlmsg_len - NLMSG_HDRLEN
        grown == realloc(m.data, tmp + tlen, junk)
    IN  [m EXCEPT !.nm_size = m.nlmsg_len + tlen,
                  !.nlmsg_len = m.nlmsg_len + tlen,
                  !.data = [i \in 1 .. (tmp + tlen) |->
                              IF i > tmp + len THEN 0 ELSE grown[i]]]

\* nlmsg_append that copies the data to the start of the payload
nlmsg_append_AtStart(m, octet, len, pad, junk) ==
    LET r == nlmsg_reserve(m, len, pad, junk)
    IN  [r EXCEPT !.data = [i \in 1 .. Len(r.data) |->
                              IF i <= len THEN octet ELSE r.data[i]]]

\* nlmsg_append(n, data, len, pad) when realloc succeeds: nlmsg_reserve,
\* then memcpy(tmp, data, len); the data is len octets of one value
nlmsg_append(m, octet, len, pad, junk) ==
    LET tmp == m.nlmsg_len - NLMSG_HDRLEN
        r == nlmsg_reserve(m, len, pad, junk)
    IN  [r EXCEPT !.data = [i \in 1 .. Len(r.data) |->
                              IF i > tmp /\ i <= tmp + len
                              THEN octet ELSE r.data[i]]]

\* nlmsg_put(n, pid, seq, type, payload, flags) up to nlmsg_reserve
nlmsg_put_hdr(m, pid, seq, type, flags) ==
    [m EXCEPT !.nlmsg_type = type, !.nlmsg_flags = flags,
              !.nlmsg_pid = pid, !.nlmsg_seq = seq]

\* nlmsg_put(n, pid, seq, type, payload, flags) when realloc succeeds
nlmsg_put(m, pid, seq, type, payload, flags, junk) ==
    IF payload > 0
    THEN nlmsg_reserve(nlmsg_put_hdr(m, pid, seq, type, flags), payload,
                       NLMSG_ALIGNTO, junk)
    ELSE nlmsg_put_hdr(m, pid, seq, type, flags)

\* arguments and result recorded for the properties: the length and the
\* pad of the room asked for, the octet value of the data to append, the
\* header fields handed in, whether the allocation succeeded, and the
\* offset of the room returned (-1 for NULL or none)
NoArg == [len |-> 0, pad |-> 0, octet |-> 0, hdrlen |-> 0, pid |-> 0,
          seq |-> 0, flags |-> {}, ok |-> TRUE, off |-> -1]

(* --------------------------- nl_connect, nl_close ---------------------- *)
(* An endpoint is the struct nl_sock (s_fd, s_proto, s_local and the       *)
(* NL_SOCK_BUFSIZE_SET flag) together with the descriptors the process     *)
(* holds open.                                                             *)

\* descriptors socket() may return
Fds == {3, 4}

\* a port the kernel assigns on bind
KernelPort == 4322

\* protocols handed to nl_connect
Protocols == {NETLINK_ROUTE, NlProto}

\* codes nl_syserr2nlerr makes of errno
SysErrs == {NLE_FAILURE, NLE_NOMEM}

\* the system calls of nl_connect that may fail, in the order of the code
ConnectSteps == <<"socket", "bufsize", "bind", "getsockname", "addrlen">>

\* struct nl_sock as allocated: no descriptor, a local address of the
\* netlink family
NoSock == [s_fd |-> -1, s_proto |-> 0,
           s_local |-> [nl_family |-> AF_NETLINK, nl_pid |-> LocalPort],
           bufsize_set |-> FALSE]

\* what the system answers to one nl_connect: the descriptor of socket(),
\* the call that fails if one does, its error and the address getsockname
\* reports
Outcomes == [fd : Fds, fail : {"none"} \cup {ConnectSteps[i] : i \in 1 .. 5},
             error : SysErrs,
             name : [nl_family : {AF_NETLINK, AF_UNSPEC},
                     nl_pid : {LocalPort, KernelPort}]]

\* label errout of nl_connect that leaves the descriptor open
errout_Leak(s, open, e) == [sock |-> [s EXCEPT !.s_fd = -1], open |-> open,
                            ret |-> e]

\* label errout of nl_connect
errout(s, open, e) ==
    IF s.s_fd # -1
    THEN [sock |-> [s EXCEPT !.s_fd = -1], open |-> open \ {s.s_fd},
          ret |-> e]
    ELSE [sock |-> s, open |-> open, ret |-> e]

\* nl_connect from bind on: s has its descriptor
connect_bind(s, open, protocol, o) ==
    IF o.fail \in {"bind", "getsockname"}
    THEN errout(s, open, -o.error)
    ELSE LET named == [s EXCEPT !.s_local = o.name]
         IN  IF o.fail = "addrlen"
             THEN errout(named, open, -NLE_NOADDR)
             ELSE IF named.s_local.nl_family # AF_NETLINK
             THEN errout(named, open, -NLE_AF_NOSUPPORT)
             ELSE [sock |-> [named EXCEPT !.s_proto = protocol],
                   open |-> open, ret |-> 0]

\* nl_connect that does not test whether the socket is open
nl_connect_Reopen(s, open, protocol, o) ==
    connect_bind([s EXCEPT !.s_fd = o.fd, !.bufsize_set = TRUE],
                 open \cup {o.fd}, protocol, o)

\* nl_connect(sk, protocol)
nl_connect(s, open, protocol, o) ==
    IF s.s_fd # -1
    THEN [sock |-> s, open |-> open, ret |-> -NLE_BAD_SOCK]
    ELSE IF o.fail = "socket"
    THEN errout([s EXCEPT !.s_fd = -1], open, -o.error)
    ELSE LET opened == [s EXCEPT !.s_fd = o.fd]
             fds == open \cup {o.fd}
         IN  IF ~s.bufsize_set /\ o.fail = "bufsize"
             THEN errout(opened, fds, -o.error)
             ELSE connect_bind([opened EXCEPT !.bufsize_set = TRUE], fds,
                               protocol, o)

\* nl_close that leaves the protocol
nl_close_KeepProto(s, open) ==
    [sock |-> [s EXCEPT !.s_fd = -1], open |-> open \ {s.s_fd}]

\* nl_close(sk)
nl_close(s, open) ==
    IF s.s_fd >= 0
    THEN [sock |-> [s EXCEPT !.s_fd = -1, !.s_proto = 0],
          open |-> open \ {s.s_fd}]
    ELSE [sock |-> [s EXCEPT !.s_proto = 0], open |-> open]

\* no call of nl_connect yet
NoConn == [sock |-> NoSock, open |-> {}, protocol |-> 0, fail |-> "none",
           closed |-> FALSE]

(* ------------------------ callback sets as objects --------------------- *)
(* A struct nl_cb in memory: the table above with the arguments of its     *)
(* hooks and its reference count.  cb_refcnt 0 is memory not allocated or  *)
(* freed.                                                                  *)

\* places a struct nl_cb may be allocated at: the first holds sk->s_cb
Addrs == {1, 2}

\* hooks the application binds in the sets it clones
CloneHooks == {"VALID", "ACK"}

\* no struct nl_cb
NoObj == [cb |-> nl_cb_alloc, cb_args |-> [t \in Hooks |-> 0],
          cb_err_arg |-> 0, cb_refcnt |-> 0]

\* nl_cb_alloc(NL_CB_DEFAULT) with its reference count
cb_alloc == [NoObj EXCEPT !.cb_refcnt = 1]

\* nl_cb_clone that keeps the count it copied
cb_clone_KeepCount(orig) == orig

\* nl_cb_clone(orig): memcpy, then cb_refcnt = 1
cb_clone(orig) == [orig EXCEPT !.cb = nl_cb_clone(orig.cb), !.cb_refcnt = 1]

\* nl_cb_get(cb)
cb_get(o) == [o EXCEPT !.cb_refcnt = @ + 1]

\* nl_cb_put that frees the set with the last but one reference
cb_put_Early(o) == IF o.cb_refcnt - 1 <= 1 THEN NoObj
                   ELSE [o EXCEPT !.cb_refcnt = @ - 1]

\* nl_cb_put(cb): the set is freed when the count falls to zero
cb_put(o) == IF o.cb_refcnt - 1 <= 0 THEN NoObj
             ELSE [o EXCEPT !.cb_refcnt = @ - 1]

\* nl_cb_set(cb, type, NL_CB_CUSTOM, func, arg)
cb_set_obj(o, type, func, a) ==
    [o EXCEPT !.cb = cb_set_custom(@, type, func), !.cb_args[type] = a]

\* nl_cb_err(cb, NL_CB_CUSTOM, func, arg)
cb_err_obj(o, func, a) ==
    [o EXCEPT !.cb = cb_err_custom(@, func), !.cb_err_arg = a]

\* nl_cb_overwrite_recvmsgs, nl_cb_overwrite_recv, nl_cb_overwrite_send
Overrides == {"cb_recvmsgs_ow", "cb_recv_ow", "cb_send_ow"}

cb_overwrite(o, ow, func) == [o EXCEPT !.cb[ow] = func]

\* the socket's set alone; on is the place the last call acted on and
\* new the place of the set it returned (0 for none)
NoHeap == [obj |-> [a \in Addrs |-> IF a = 1 THEN cb_alloc ELSE NoObj],
           on |-> 0, new |-> 0]

(* ------------------------- nl_cb_set in full --------------------------- *)

NLE_RANGE == 8

\* enum nl_cb_type by its values; __NL_CB_TYPE_MAX - 1
TypeOf == <<"VALID", "FINISH", "OVERRUN", "SKIPPED", "ACK", "MSG_IN",
            "MSG_OUT", "INVALID", "SEQ_CHECK", "SEND_ACK", "DUMP_INTR">>

NL_CB_TYPE_MAX == 10

\* enum nl_cb_kind
NL_CB_DEFAULT == 0

NL_CB_VERBOSE == 1

NL_CB_DEBUG == 2

NL_CB_CUSTOM == 3

NL_CB_KIND_MAX == 3

\* the values of type and kind the application passes
TypeArgs == (0 - 1) .. (NL_CB_TYPE_MAX + 1)

KindArgs == (0 - 1) .. (NL_CB_KIND_MAX + 1)

\* calls of nl_cb_set followed
MaxSets == 2

\* cb_def[type][kind], the table of the preset handlers
cb_def(type, kind) ==
    LET t == TypeOf[type + 1]
    IN  CASE t = "VALID" /\ kind = NL_CB_VERBOSE -> "nl_valid_handler_verbose"
          [] t = "VALID" /\ kind = NL_CB_DEBUG -> "nl_valid_handler_debug"
          [] t = "FINISH" /\ kind = NL_CB_DEBUG -> "nl_finish_handler_debug"
          [] t = "INVALID" /\ kind = NL_CB_VERBOSE -> "nl_invalid_handler_verbose"
          [] t = "INVALID" /\ kind = NL_CB_DEBUG -> "nl_invalid_handler_verbose"
          [] t = "MSG_IN" /\ kind = NL_CB_DEBUG -> "nl_msg_in_handler_debug"
          [] t = "MSG_OUT" /\ kind = NL_CB_DEBUG -> "nl_msg_out_handler_debug"
          [] t = "OVERRUN" /\ kind = NL_CB_VERBOSE -> "nl_overrun_handler_verbose"
          [] t = "OVERRUN" /\ kind = NL_CB_DEBUG -> "nl_overrun_handler_verbose"
          [] t = "SKIPPED" /\ kind = NL_CB_DEBUG -> "nl_skipped_handler_debug"
          [] t = "ACK" /\ kind = NL_CB_DEBUG -> "nl_ack_handler_debug"
          [] OTHER -> "NULL"

\* nl_cb_set that tests the type alone and takes any other kind for a
\* preset
nl_cb_set_AnyKind(o, type, kind, func, a) ==
    IF type < 0 \/ type > NL_CB_TYPE_MAX
    THEN [obj |-> o, ret |-> -NLE_RANGE]
    ELSE [obj |-> [o EXCEPT !.cb.cb_set[TypeOf[type + 1]] =
                                IF kind = NL_CB_CUSTOM THEN func
                                ELSE cb_def(type, kind),
                            !.cb_args[TypeOf[type + 1]] = a],
          ret |-> 0]

\* nl_cb_set(cb, type, kind, func, arg): the set it leaves and its result
nl_cb_set(o, type, kind, func, a) ==
    IF type < 0 \/ type > NL_CB_TYPE_MAX
    THEN [obj |-> o, ret |-> -NLE_RANGE]
    ELSE IF kind < 0 \/ kind > NL_CB_KIND_MAX
    THEN [obj |-> o, ret |-> -NLE_RANGE]
    ELSE IF kind = NL_CB_CUSTOM
    THEN [obj |-> [o EXCEPT !.cb.cb_set[TypeOf[type + 1]] = func,
                            !.cb_args[TypeOf[type + 1]] = a],
          ret |-> 0]
    ELSE [obj |-> [o EXCEPT !.cb.cb_set[TypeOf[type + 1]] = cb_def(type, kind),
                            !.cb_args[TypeOf[type + 1]] = a],
          ret |-> 0]

\* no call of nl_cb_set yet
NoSet == [count |-> 0, on |-> 0, type |-> 0, kind |-> 0, func |-> "NULL",
          arg |-> 0, ret |-> 0]

(* ------------- the clone of nl_wait_for_ack and nl_pickup -------------- *)

\* local cb (0 before nl_cb_clone and when it returned NULL), sk->s_cb as
\* it was at the call, the calls of nl_cb_put on the clone and the times
\* it was freed
NoTemp == [cb |-> 0, before |-> cb_alloc, puts |-> 0, frees |-> 0]

\* what the application does to sk->s_cb before the call: binds a hook or
\* the error hook, or takes a reference
Setups(o) ==
    {cb_set_obj(o, t, "custom", 1) : t \in {u \in CloneHooks : ~Bound(o.cb, u)}}
    \cup (IF o.cb.cb_err = "NULL" THEN {cb_err_obj(o, "custom", 1)} ELSE {})
    \cup (IF o.cb_refcnt = 1 THEN {cb_get(o)} ELSE {})

\* cb = nl_cb_clone(sk->s_cb); nl_cb_set(cb, ..., NL_CB_CUSTOM, ..., ...)
temp_clone(o, fn) ==
    IF fn = "nl_wait_for_ack"
    THEN cb_set_obj(cb_clone(o), "ACK", "ack_wait_handler", 0)
    ELSE cb_set_obj(cb_clone(o), "VALID", "pickup_answer", 2)

\* the two functions return and leave the clone
temp_put_Leak(t, h) == [heap |-> h, temp |-> t]

\* nl_cb_put(cb) at the end of the two functions
temp_put(t, h) ==
    [heap |-> [h EXCEPT !.obj[t.cb] = cb_put(@), !.on = t.cb, !.new = 0],
     temp |-> [t EXCEPT !.puts = @ + 1,
                        !.frees = IF cb_put(h.obj[t.cb]) = NoObj
                                  THEN @ + 1 ELSE @]]

(* ---------------------- references to a callback set ------------------- *)

\* calls of nl_cb_get followed per set
MaxGets == 4

\* the calls made on the set that is or was last at a place, and the
\* times it was freed; the socket's set is there from the start
NoRefs == [a \in Addrs |-> [made |-> a = 1, gets |-> 0, puts |-> 0,
                            frees |-> 0]]

\* nl_cb_put(cb) on an allocated set, and whether it freed it
ref_put(o) == [obj |-> cb_put(o), freed |-> cb_put(o).cb_refcnt = 0]

(* ------------------------- a multipart batch --------------------------- *)

\* frames of the longest batch, its DONE frame included
MaxBatch == 4

\* the batch the peer answers with: its frames, those not yet handed to
\* recv, and the datagrams recv has delivered
NoBatch == [total |-> 0, left |-> 0, sent |-> 0]

\* the frame of a batch that comes next when after is the number of frames
\* behind it: the DONE frame when none is, with or without NLM_F_MULTI, and
\* a frame with NLM_F_MULTI before; any of them may carry NLM_F_DUMP_INTR
BatchFrames(expect, after) ==
    [type : (IF after = 0 THEN {"DONE"} ELSE {"DATA"}),
     flags : (IF after = 0
              THEN {{"MULTI"}, {}, {"MULTI", "DUMP_INTR"}}
              ELSE {{"MULTI"}, {"MULTI", "DUMP_INTR"}}),
     seq : {expect}, len : {nlmsg_msg_size(0)}, error : {0}]

(* ------------------------------ nl_pickup ------------------------------ *)
(* Objects are named by the number of the frame they were parsed from; 0   *)
(* is NULL.                                                                *)

\* what *result holds as long as nl_pickup has not written it
Untouched == -1

\* struct pickup_param pp = { .parser = parser } and the caller's *result;
\* stored lists the objects __store_answer took a reference to
NoPick == [result0 |-> Untouched, pp_result |-> 0, stored |-> << >>]

\* the parser hands an object to pp_cb and returns what pp_cb returned,
\* returns 0 without an object, or fails before it has one
ParserOutcomes == {[store |-> TRUE, ret |-> 0], [store |-> FALSE, ret |-> 0],
                   [store |-> FALSE, ret |-> -NLE_INVAL]}

\* __store_answer(obj, p): nl_object_get(obj); pp->result = obj
store_answer(p, obj) ==
    [p EXCEPT !.pp_result = obj, !.stored = Append(@, obj)]

\* nl_pickup after nl_recvmsgs returned e: *result = pp.result unless e < 0
pickup_result(p, e) == IF e < 0 THEN p.result0 ELSE p.pp_result

(* -------------------------------- nl_recv ------------------------------ *)
(* A datagram is named by the order in which the peer sent it and has a    *)
(* size in octets; the socket holds a queue of them.  Sizes are scaled to  *)
(* a page of PageSize octets.                                              *)

\* getpagesize()
PageSize == 4

\* sizes of the datagrams of the peer: less than a page, a page, more
DgramSizes == {PageSize - 2, PageSize, PageSize + 2}

\* sk->s_bufsize: not set, or two pages
BufSizes == {0, 2 * PageSize}

NoDgram == [id |-> 0, size |-> 0]

\* the smaller of two sizes
Min(a, b) == IF a <= b THEN a ELSE b

\* recvmsg(fd, &msg, flags) on a datagram socket with d at the head of its
\* queue and an iovec of len octets: the octets copied, the value
\* returned (the size of the datagram with MSG_TRUNC, else the octets
\* copied), whether msg_flags has MSG_TRUNC, and whether d leaves the
\* queue
recvmsg(d, len, flags) ==
    [octets |-> Min(d.size, len),
     n |-> IF "MSG_TRUNC" \in flags THEN d.size ELSE Min(d.size, len),
     trunc |-> d.size > len,
     consumed |-> "MSG_PEEK" \notin flags]

\* iov.iov_len = sk->s_bufsize ? : page_size
recv_iov_len(s_bufsize) == IF s_bufsize # 0 THEN s_bufsize ELSE PageSize

\* flags of the first recvmsg
recv_flags(peek) == IF peek THEN {"MSG_PEEK", "MSG_TRUNC"} ELSE {}

\* the part of nl_recv behind a recvmsg that returned n > 0: "grow" the
\* buffer to n and retry without flags, "read" again without flags, or
\* "return" n
recv_after(r, len, flags) ==
    IF len < r.n \/ r.trunc THEN "grow"
    ELSE IF flags # {} THEN "read"
    ELSE "return"

\* no call of nl_recv yet: queue is the socket's queue and sent counts the
\* datagrams of the peer; the other fields are the locals of nl_recv, the
\* datagram its first recvmsg found (first), the size the buffer had then
\* (size0), the datagram whose octets *buf holds (buf), the number of
\* recvmsg calls that found a datagram (calls) and whether a system call
\* failed (failed)
NoRx == [queue |-> << >>, sent |-> 0, at |-> "idle", peek |-> FALSE,
         nonblock |-> FALSE, iov_len |-> 0, flags |-> {}, size0 |-> 0,
         first |-> NoDgram, buf |-> [id |-> 0, octets |-> 0], calls |-> 0,
         failed |-> FALSE]

(* ------------------------ the memory of recvmsgs ----------------------- *)
(* Allocations are numbered in the order they are made; 0 is NULL.         *)
(* frees[i] counts how often allocation i was freed.  buf, msg and creds   *)
(* are the locals of recvmsgs; frames counts the frames left in buf.       *)

NoMem == [at |-> "idle", buf |-> 0, msg |-> 0, creds |-> 0, frames |-> 0,
          dgrams |-> 0, frees |-> << >>]

\* free(p), nlmsg_free(p) of a message nobody else refers to
mem_free(frees, p) == IF p = 0 THEN frees ELSE [frees EXCEPT ![p] = @ + 1]

\* recv returns n > 0: *buf is a new allocation and, with credentials,
\* *creds another
mem_recv(m, k, withcreds) ==
    LET b == Len(m.frees) + 1
    IN  [m EXCEPT !.buf = b,
                  !.creds = IF withcreds THEN b + 1 ELSE m.creds,
                  !.frees = IF withcreds THEN m.frees \o <<0, 0>>
                            ELSE Append(m.frees, 0),
                  !.frames = k, !.dgrams = @ + 1, !.at = "while"]

\* recv returns n <= 0: nl_recv has freed the buffer it had put in *buf;
\* recvmsgs returns n
mem_recv_fails(m) ==
    [m EXCEPT !.buf = Len(m.frees) + 1, !.frees = Append(m.frees, 1),
              !.at = "done"]

\* label out: nlmsg_free(msg); free(buf); free(creds); return
mem_out(m) ==
    [m EXCEPT !.frees = mem_free(mem_free(mem_free(m.frees, m.msg), m.buf),
                                 m.creds),
              !.at = "done"]

\* nlmsg_free(msg); msg = nlmsg_convert(hdr); goto out when it fails
mem_convert(m, ok) ==
    LET freed == mem_free(m.frees, m.msg)
    IN  IF ok
        THEN [m EXCEPT !.msg = Len(freed) + 1, !.frees = Append(freed, 0),
                       !.at = "body"]
        ELSE mem_out([m EXCEPT !.msg = 0, !.frees = freed])

\* the end of the while loop that leaves the three pointers as they are
mem_end_Dangling(m, more_parts) ==
    LET freed == [m EXCEPT !.frees = mem_free(mem_free(mem_free(m.frees,
                                         m.msg), m.buf), m.creds)]
    IN  IF more_parts THEN [freed EXCEPT !.at = "read"] ELSE mem_out(freed)

\* the end of the while loop: the three are freed and set to NULL; then
\* continue_reading when multipart is set, else stop and out
mem_end(m, more_parts) ==
    LET freed == [m EXCEPT !.frees = mem_free(mem_free(mem_free(m.frees,
                                         m.msg), m.buf), m.creds),
                           !.msg = 0, !.buf = 0, !.creds = 0]
    IN  IF more_parts THEN [freed EXCEPT !.at = "read"] ELSE mem_out(freed)

(* ------------------------------- state --------------------------------- *)

VARIABLES
    sk,          \* struct nl_sock: s_seq_next, s_seq_expect, s_flags, ...
    s_cb,        \* sk->s_cb, the socket's callback set
    cb,          \* the callback set recvmsgs runs with
    api,         \* entry point the application called
    pc,          \* "idle", "read", "while", "call", "skip", "done"
    n,           \* frames left in the datagram being walked
    err,         \* local err of recvmsgs
    multipart,   \* local multipart of recvmsgs
    interrupted, \* local interrupted of recvmsgs
    nrecv,       \* local nrecv of recvmsgs
    hdr,         \* frame hdr points to (the last one fetched from the datagram)
    at,          \* section of the loop body the frame has reached
    hook,        \* handler being invoked when pc = "call"
    calls,       \* handlers invoked for the frame hdr, with their results
    dgrams,      \* datagrams delivered by recv in this invocation
    rv,          \* value returned by recvmsgs / nl_recvmsgs_report
    ret,         \* value returned by the entry point
    req,         \* the struct nl_msg the application handed to the library
    wire,        \* whether sendmsg wrote the request to the transport
    expect0,     \* sk->s_seq_expect when the frame hdr was fetched
    arg,         \* arguments of the last call that built or grew req
    stream,      \* the octet stream being walked: its frames and its size
    conn,        \* the endpoint nl_connect and nl_close act on
    heap,        \* the struct nl_cb objects and their reference counts
    pick,        \* pp and *result of nl_pickup
    rx,          \* the socket's queue of datagrams and the locals of nl_recv
    mem,         \* the memory recvmsgs holds: its pointers and what they point to
    set,         \* the last nl_cb_set: its arguments and what it returned
    temp,        \* the clone nl_wait_for_ack or nl_pickup works with
    refs,        \* per struct nl_cb: the calls of nl_cb_get and nl_cb_put on it
    batch        \* the multipart batch the peer sends

\* state outside the socket, its callback sets and the message being built
\* state of the walks through recvmsgs that follow its memory
more == <<mem, set, temp, refs, batch>>

other == <<stream, conn, heap, pick, rx, more>>

vars == <<sk, s_cb, cb, api, pc, n, err, multipart, interrupted, nrecv,
          hdr, at, hook, calls, dgrams, rv, ret, req, wire, expect0, arg,
          other>>

(* ------------------ the body of the while loop of recvmsgs ------------- *)
(* L holds what the body reads and writes: sk->s_seq_expect and the locals *)
(* multipart, interrupted, err.  Each operator computes the code from one  *)
(* place of the body up to the next handler invocation or the end of the   *)
(* body and says how control leaves: "call" (a handler is invoked at       *)
(* section `at`), "skip" (label skip), "stop" (label stop), "out" (label   *)
(* out).                                                                   *)

Call(site, type, L) == [ctl |-> "call", at |-> site, hook |-> type, loc |-> L]

Skip(site, L) == [ctl |-> "skip", at |-> site, hook |-> "NONE", loc |-> L]

Stop(site, L) == [ctl |-> "stop", at |-> site, hook |-> "NONE", loc |-> L]

\* Out with the failure lost: the frame is only skipped
Out_Skips(site, L, code) == [ctl |-> "skip", at |-> site, hook |-> "NONE",
                             loc |-> L]

Out(site, L, code) == [ctl |-> "out", at |-> site, hook |-> "NONE",
                       loc |-> [L EXCEPT !.err = code]]

\* Dispatch with the FINISH invocation lost: a DONE frame is only skipped
Dispatch_NoFinish(c, h, L) ==
    IF h.type = "DONE" THEN Skip("dispatch", [L EXCEPT !.multipart = FALSE])
    ELSE IF h.type = "NOOP" THEN
        IF Bound(c, "SKIPPED") THEN Call("dispatch", "SKIPPED", L)
        ELSE Skip("dispatch", L)
    ELSE IF h.type = "OVERRUN" THEN
        IF Bound(c, "OVERRUN") THEN Call("dispatch", "OVERRUN", L)
        ELSE Out("dispatch", L, -NLE_MSG_OVERFLOW)
    ELSE IF h.type = "ERROR" THEN
        IF h.len < nlmsg_msg_size(NlmsgerrSize) THEN
            IF Bound(c, "INVALID") THEN Call("dispatch", "INVALID", L)
            ELSE Out("dispatch", L, -NLE_MSG_TRUNC)
        ELSE IF h.error # 0 THEN
            IF c.cb_err # "NULL" THEN Call("dispatch", "ERR", L)
            ELSE Out("dispatch", L, -nl_syserr2nlerr(h.error))
        ELSE IF Bound(c, "ACK") THEN Call("dispatch", "ACK", L)
        ELSE Skip("dispatch", L)
    ELSE
        IF Bound(c, "VALID") THEN Call("dispatch", "VALID", L)
        ELSE Skip("dispatch", L)

\* Dispatch that leaves multipart set at a DONE frame
Dispatch_KeepMulti(c, h, L) ==
    IF h.type = "DONE" THEN
        IF Bound(c, "FINISH") THEN Call("dispatch", "FINISH", L)
        ELSE Skip("dispatch", L)
    ELSE IF h.type = "NOOP" THEN
        IF Bound(c, "SKIPPED") THEN Call("dispatch", "SKIPPED", L)
        ELSE Skip("dispatch", L)
    ELSE IF h.type = "OVERRUN" THEN
        IF Bound(c, "OVERRUN") THEN Call("dispatch", "OVERRUN", L)
        ELSE Out("dispatch", L, -NLE_MSG_OVERFLOW)
    ELSE IF h.type = "ERROR" THEN
        IF h.len < nlmsg_msg_size(NlmsgerrSize) THEN
            IF Bound(c, "INVALID") THEN Call("dispatch", "INVALID", L)
            ELSE Out("dispatch", L, -NLE_MSG_TRUNC)
        ELSE IF h.error # 0 THEN
            IF c.cb_err # "NULL" THEN Call("dispatch", "ERR", L)
            ELSE Out("dispatch", L, -nl_syserr2nlerr(h.error))
        ELSE IF Bound(c, "ACK") THEN Call("dispatch", "ACK", L)
        ELSE Skip("dispatch", L)
    ELSE
        IF Bound(c, "VALID") THEN Call("dispatch", "VALID", L)
        ELSE Skip("dispatch", L)

\* dispatch by message type
Dispatch(c, h, L) ==
    IF h.type = "DONE" THEN
        LET L1 == [L EXCEPT !.multipart = FALSE]
        IN  IF Bound(c, "FINISH") THEN Call("dispatch", "FINISH", L1)
            ELSE Skip("dispatch", L1)
    ELSE IF h.type = "NOOP" THEN
        IF Bound(c, "SKIPPED") THEN Call("dispatch", "SKIPPED", L)
        ELSE Skip("dispatch", L)
    ELSE IF h.type = "OVERRUN" THEN
        IF Bound(c, "OVERRUN") THEN Call("dispatch", "OVERRUN", L)
        ELSE Out("dispatch", L, -NLE_MSG_OVERFLOW)
    ELSE IF h.type = "ERROR" THEN
        IF h.len < nlmsg_msg_size(NlmsgerrSize) THEN
            IF Bound(c, "INVALID") THEN Call("dispatch", "INVALID", L)
            ELSE Out("dispatch", L, -NLE_MSG_TRUNC)
        ELSE IF h.error # 0 THEN
            IF c.cb_err # "NULL" THEN Call("dispatch", "ERR", L)
            ELSE Out("dispatch", L, -nl_syserr2nlerr(h.error))
        ELSE IF Bound(c, "ACK") THEN Call("dispatch", "ACK", L)
        ELSE Skip("dispatch", L)
    ELSE
        IF Bound(c, "VALID") THEN Call("dispatch", "VALID", L)
        ELSE Skip("dispatch", L)

\* the other side wishes to see an ack for this message
SendAck(c, h, L) ==
    IF "ACK" \in h.flags /\ Bound(c, "SEND_ACK")
    THEN Call("send_ack", "SEND_ACK", L)
    ELSE Dispatch(c, h, L)

\* NLM_F_DUMP_INTR
DumpIntr(c, h, L) ==
    IF "DUMP_INTR" \in h.flags THEN
        IF Bound(c, "DUMP_INTR") THEN Call("dump_intr", "DUMP_INTR", L)
        ELSE SendAck(c, h, [L EXCEPT !.interrupted = TRUE])
    ELSE SendAck(c, h, L)

\* Advance with MSG_IN invoked once more, after the sequence check
Advance_MsgIn(c, h, L) ==
    LET L1 == IF h.type \in {"DONE", "ERROR", "NOOP", "OVERRUN"}
              THEN [L EXCEPT !.seq_expect = (L.seq_expect + 1) % SeqModulus]
              ELSE L
        L2 == IF "MULTI" \in h.flags THEN [L1 EXCEPT !.multipart = TRUE]
              ELSE L1
    IN  IF Bound(c, "MSG_IN") THEN Call("dump_intr", "MSG_IN", L2)
        ELSE DumpIntr(c, h, L2)

\* Advance with the increment of s_seq_expect lost
Advance_NoCount(c, h, L) ==
    DumpIntr(c, h, IF "MULTI" \in h.flags THEN [L EXCEPT !.multipart = TRUE]
                   ELSE L)

\* Advance that counts a terminating frame only when NLM_F_MULTI is clear
Advance_UnlessMulti(c, h, L) ==
    LET L1 == IF h.type \in {"DONE", "ERROR", "NOOP", "OVERRUN"}
                 /\ "MULTI" \notin h.flags
              THEN [L EXCEPT !.seq_expect = (L.seq_expect + 1) % SeqModulus]
              ELSE L
        L2 == IF "MULTI" \in h.flags THEN [L1 EXCEPT !.multipart = TRUE]
              ELSE L1
    IN  DumpIntr(c, h, L2)

\* s_seq_expect++ for the terminating types, multipart = 1 for NLM_F_MULTI
Advance(c, h, L) ==
    LET L1 == IF h.type \in {"DONE", "ERROR", "NOOP", "OVERRUN"}
              THEN [L EXCEPT !.seq_expect = (L.seq_expect + 1) % SeqModulus]
              ELSE L
        L2 == IF "MULTI" \in h.flags THEN [L1 EXCEPT !.multipart = TRUE]
              ELSE L1
    IN  DumpIntr(c, h, L2)

\* SeqCheck with the strict comparison lost when INVALID is empty
SeqCheck_Lenient(c, flags, h, L) ==
    IF Bound(c, "SEQ_CHECK") THEN Call("seq_check", "SEQ_CHECK", L)
    ELSE IF "NL_NO_AUTO_ACK" \notin flags THEN
        IF h.seq # L.seq_expect /\ Bound(c, "INVALID")
        THEN Call("seq_check", "INVALID", L)
        ELSE Advance(c, h, L)
    ELSE Advance(c, h, L)

\* sequence number checking
SeqCheck(c, flags, h, L) ==
    IF Bound(c, "SEQ_CHECK") THEN Call("seq_check", "SEQ_CHECK", L)
    ELSE IF "NL_NO_AUTO_ACK" \notin flags THEN
        IF h.seq # L.seq_expect THEN
            IF Bound(c, "INVALID") THEN Call("seq_check", "INVALID", L)
            ELSE Out("seq_check", L, -NLE_SEQ_MISMATCH)
        ELSE Advance(c, h, L)
    ELSE Advance(c, h, L)

\* the raw callback is the first
MsgIn(c, flags, h, L) ==
    IF Bound(c, "MSG_IN") THEN Call("msg_in", "MSG_IN", L)
    ELSE SeqCheck(c, flags, h, L)

\* the code after a handler invoked at section `site` has returned NL_OK
Resume(site, c, flags, h, L) ==
    CASE site = "msg_in"    -> SeqCheck(c, flags, h, L)
      [] site = "seq_check" -> Advance(c, h, L)
      [] site = "dump_intr" -> SendAck(c, h, L)
      [] site = "send_ack"  -> Dispatch(c, h, L)
      [] site = "dispatch"  -> Skip("dispatch", L)

\* NL_CB_CALL with NL_STOP taken for NL_SKIP
NL_CB_CALL_StopSkips(r, site, c, flags, h, L) ==
    CASE r = NL_OK   -> Resume(site, c, flags, h, [L EXCEPT !.err = 0])
      [] r = NL_SKIP -> Skip(site, [L EXCEPT !.err = r])
      [] r = NL_STOP -> Skip(site, [L EXCEPT !.err = r])
      [] OTHER       -> Out(site, L, r)

\* NL_CB_CALL with NL_SKIP taken for NL_STOP
NL_CB_CALL_SkipStops(r, site, c, flags, h, L) ==
    CASE r = NL_OK   -> Resume(site, c, flags, h, [L EXCEPT !.err = 0])
      [] r = NL_SKIP -> Stop(site, [L EXCEPT !.err = r])
      [] r = NL_STOP -> Stop(site, [L EXCEPT !.err = r])
      [] OTHER       -> Out(site, L, r)

\* macro NL_CB_CALL: r is what nl_cb_call returned
NL_CB_CALL(r, site, c, flags, h, L) ==
    CASE r = NL_OK   -> Resume(site, c, flags, h, [L EXCEPT !.err = 0])
      [] r = NL_SKIP -> Skip(site, [L EXCEPT !.err = r])
      [] r = NL_STOP -> Stop(site, [L EXCEPT !.err = r])
      [] OTHER       -> Out(site, L, r)

\* the error callback with NL_STOP taken for NL_SKIP
CbErrCall_StopSkips(r, h, L) ==
    IF r < 0 THEN Out("dispatch", L, r)
    ELSE Skip("dispatch", [L EXCEPT !.err = r])

\* the error callback with NL_STOP ending the loop at label stop
CbErrCall_StopSucceeds(r, h, L) ==
    IF r < 0 THEN Out("dispatch", L, r)
    ELSE IF r = NL_SKIP THEN Skip("dispatch", [L EXCEPT !.err = r])
    ELSE IF r = NL_STOP THEN Stop("dispatch", [L EXCEPT !.err = r])
    ELSE Skip("dispatch", [L EXCEPT !.err = r])

\* the error callback: r is what cb->cb_err returned for the NACK h
CbErrCall(r, h, L) ==
    IF r < 0 THEN Out("dispatch", L, r)
    ELSE IF r = NL_SKIP THEN Skip("dispatch", [L EXCEPT !.err = r])
    ELSE IF r = NL_STOP THEN Out("dispatch", L, -nl_syserr2nlerr(h.error))
    ELSE Skip("dispatch", [L EXCEPT !.err = r])

\* the epilogue with the error code lost: the count is returned
Epilogue_Count(ctl, e, intr, cnt) ==
    IF intr THEN -NLE_DUMP_INTR ELSE cnt

\* labels stop and out: the value recvmsgs returns
Epilogue(ctl, e, intr, cnt) ==
    LET e0 == IF ctl = "stop" THEN 0 ELSE e
        e1 == IF intr THEN -NLE_DUMP_INTR ELSE e0
    IN  IF e1 = 0 THEN cnt ELSE e1

\* nl_recvmsgs: a positive count becomes 0
nl_recvmsgs_ret(report) == IF report > 0 THEN 0 ELSE report

(* ------------------------------ send path ------------------------------ *)

\* a struct nl_msg: the header fields of nm_nlh, nm_protocol, the octets
\* allocated for nm_nlh (nm_size) and how often nlmsg_free was applied
NoReq == [nlmsg_len |-> 0, nlmsg_type |-> 0, nlmsg_flags |-> {"NONE"},
          nlmsg_seq |-> 0, nlmsg_pid |-> 0, nm_protocol |-> 0,
          nm_size |-> 0, frees |-> 0, data |-> << >>]

\* requests handed to nl_send_sync: sequence left to the library or chosen
Requests == [nlmsg_len : {nlmsg_msg_size(0)}, nlmsg_type : {ReqType},
             nlmsg_flags : {{}}, nlmsg_seq : {NL_AUTO_SEQ, Seed + 2},
             nlmsg_pid : {NL_AUTO_PORT}, nm_protocol : {-1},
             nm_size : {nlmsg_msg_size(0)}, frees : {0}, data : {<< >>}]

\* messages an application builds before it hands them to the send path:
\* port, sequence and protocol left to the library or chosen, with or
\* without payload, flags as the application set them
Messages ==
    {[nlmsg_put(nlmsg_alloc, pid, seq, ReqType, payload, flags, 0)
         EXCEPT !.nm_protocol = proto] :
       pid \in {NL_AUTO_PORT, LocalPort + 1}, seq \in {NL_AUTO_SEQ, Seed + 2},
       payload \in {0, 4}, flags \in {{}, {"ACK"}}, proto \in {-1, 0}}

\* nl_complete_msg with the sequence taken from s_seq_next but not counted
nl_complete_msg_NoCount(s, m) ==
    LET m0 == IF m.nlmsg_pid = NL_AUTO_PORT
              THEN [m EXCEPT !.nlmsg_pid = s.s_local_pid] ELSE m
        m1 == IF m.nlmsg_seq = NL_AUTO_SEQ
              THEN [m0 EXCEPT !.nlmsg_seq = s.s_seq_next] ELSE m0
        m2 == IF m.nm_protocol = -1
              THEN [m1 EXCEPT !.nm_protocol = s.s_proto] ELSE m1
        f1 == m2.nlmsg_flags \cup {"REQUEST"}
        f2 == IF "NL_NO_AUTO_ACK" \notin s.s_flags THEN f1 \cup {"ACK"} ELSE f1
    IN  [sk |-> s, msg |-> [m2 EXCEPT !.nlmsg_flags = f2]]

\* nl_complete_msg that clears the flags the application set
nl_complete_msg_Reflag(s, m) ==
    LET m0 == IF m.nlmsg_pid = NL_AUTO_PORT
              THEN [m EXCEPT !.nlmsg_pid = s.s_local_pid] ELSE m
        auto == m.nlmsg_seq = NL_AUTO_SEQ
        m1 == IF auto THEN [m0 EXCEPT !.nlmsg_seq = s.s_seq_next] ELSE m0
        s1 == IF auto
              THEN [s EXCEPT !.s_seq_next = (s.s_seq_next + 1) % SeqModulus]
              ELSE s
        m2 == IF m.nm_protocol = -1
              THEN [m1 EXCEPT !.nm_protocol = s.s_proto] ELSE m1
    IN  [sk |-> s1,
         msg |-> [m2 EXCEPT !.nlmsg_flags =
                     IF "ACK" \in m.nlmsg_flags THEN {"REQUEST"}
                     ELSE IF "NL_NO_AUTO_ACK" \notin s.s_flags
                          THEN {"REQUEST", "ACK"} ELSE {"REQUEST"}]]

\* nl_complete_msg that passes over a s_seq_next of NL_AUTO_SEQ
nl_complete_msg_SkipZero(s, m) ==
    IF m.nlmsg_seq = NL_AUTO_SEQ
    THEN LET first == IF s.s_seq_next = NL_AUTO_SEQ
                      THEN (s.s_seq_next + 1) % SeqModulus ELSE s.s_seq_next
         IN  [sk |-> [s EXCEPT !.s_seq_next = (first + 1) % SeqModulus],
              msg |-> [m EXCEPT !.nlmsg_seq = first,
                                !.nlmsg_pid = s.s_local_pid,
                                !.nm_protocol = s.s_proto,
                                !.nlmsg_flags = {"REQUEST", "ACK"}]]
    ELSE [sk |-> s, msg |-> m]

\* nl_complete_msg that takes two sequence numbers for a message
nl_complete_msg_Twice(s, m) ==
    IF m.nlmsg_seq = NL_AUTO_SEQ
    THEN [sk |-> [s EXCEPT !.s_seq_next = (s.s_seq_next + 2) % SeqModulus],
          msg |-> [m EXCEPT !.nlmsg_seq = s.s_seq_next,
                            !.nlmsg_pid = s.s_local_pid,
                            !.nm_protocol = s.s_proto,
                            !.nlmsg_flags = {"REQUEST", "ACK"}]]
    ELSE [sk |-> s, msg |-> m]

\* nl_complete_msg
nl_complete_msg(s, m) ==
    LET m0 == IF m.nlmsg_pid = NL_AUTO_PORT
              THEN [m EXCEPT !.nlmsg_pid = s.s_local_pid] ELSE m
        auto == m.nlmsg_seq = NL_AUTO_SEQ
        m1 == IF auto THEN [m0 EXCEPT !.nlmsg_seq = s.s_seq_next] ELSE m0
        s1 == IF auto
              THEN [s EXCEPT !.s_seq_next = (s.s_seq_next + 1) % SeqModulus]
              ELSE s
        m2 == IF m.nm_protocol = -1
              THEN [m1 EXCEPT !.nm_protocol = s.s_proto] ELSE m1
        f1 == m2.nlmsg_flags \cup {"REQUEST"}
        f2 == IF "NL_NO_AUTO_ACK" \notin s.s_flags THEN f1 \cup {"ACK"} ELSE f1
    IN  [sk |-> s1, msg |-> [m2 EXCEPT !.nlmsg_flags = f2]]

\* nlmsg_free that releases nothing
nlmsg_free_Keep(m) == m

\* nlmsg_free: the message and its buffer are released
nlmsg_free(m) == [m EXCEPT !.frees = @ + 1]

\* nl_sendmsg: out is what the MSG_OUT handler returned (NL_OK when the slot
\* is empty), sent is what sendmsg returned
nl_sendmsg(out, sent) == IF out # NL_OK THEN out ELSE sent

\* results of sendmsg(2) for the iovec of nl_send, which holds nlmsg_len
\* octets: the octet count of the datagram or a translated errno
SendResults(m) == {m.nlmsg_len, -NLE_FAILURE}

\* wait_for_ack: nothing to wait for when auto-ack is disabled
wait_for_ack_skips(s) == "NL_NO_AUTO_ACK" \in s.s_flags

(* ------------------------------ actions -------------------------------- *)

Locals == [seq_expect |-> sk.s_seq_expect, multipart |-> multipart,
           interrupted |-> interrupted, err |-> err]

\* an entry point returns r from recvmsgs
Return(r) ==
    /\ pc' = "done"
    /\ rv' = r
    /\ ret' = nl_recvmsgs_ret(r)

\* the loop goes on as the body says; cnt is nrecv
Leave(res, cnt) ==
    /\ sk' = [sk EXCEPT !.s_seq_expect = res.loc.seq_expect]
    /\ multipart' = res.loc.multipart
    /\ interrupted' = res.loc.interrupted
    /\ at' = res.at
    /\ hook' = res.hook
    /\ CASE res.ctl = "call" ->
              /\ pc' = "call"
              /\ err' = res.loc.err
              /\ UNCHANGED <<n, rv, ret>>
         [] res.ctl = "skip" ->
              /\ pc' = "skip"
              /\ err' = res.loc.err
              /\ UNCHANGED <<n, rv, ret>>
         [] OTHER ->
              /\ err' = Epilogue(res.ctl, res.loc.err, res.loc.interrupted, cnt)
              /\ Return(Epilogue(res.ctl, res.loc.err, res.loc.interrupted, cnt))
              /\ UNCHANGED n

\* locals of recvmsgs at entry
Enter(c, entry) ==
    /\ cb' = c
    /\ api' = entry
    /\ pc' = "read"
    /\ n' = 0
    /\ err' = 0
    /\ multipart' = FALSE
    /\ interrupted' = FALSE
    /\ nrecv' = 0
    /\ UNCHANGED <<s_cb, hdr, at, hook, calls, dgrams, rv, ret, expect0, arg,
                   other>>

\* nl_cb_set(sk->s_cb, type, NL_CB_CUSTOM, func, arg) before the call
CbSet ==
    /\ pc = "idle"
    /\ Cardinality(BoundSlots(s_cb)) < MaxBound
    /\ \E t \in Hooks :
         /\ ~Bound(s_cb, t)
         /\ s_cb' = cb_set_custom(s_cb, t, "custom")
    /\ UNCHANGED <<sk, cb, api, pc, n, err, multipart, interrupted, nrecv,
                   hdr, at, hook, calls, dgrams, rv, ret, req, wire,
                   expect0, arg, other>>

\* nl_cb_set_all(sk->s_cb, NL_CB_CUSTOM, func, arg) on a fresh set
CbSetAll ==
    /\ pc = "idle"
    /\ BoundSlots(s_cb) = {}
    /\ s_cb' = cb_set_all_custom(s_cb, "custom")
    /\ UNCHANGED <<sk, cb, api, pc, n, err, multipart, interrupted, nrecv,
                   hdr, at, hook, calls, dgrams, rv, ret, req, wire,
                   expect0, arg, other>>

\* nl_cb_err(sk->s_cb, NL_CB_CUSTOM, func, arg) before the call
CbErr ==
    /\ pc = "idle"
    /\ s_cb.cb_err = "NULL"
    /\ \/ Cardinality(BoundSlots(s_cb)) < MaxBound
       \/ BoundSlots(s_cb) = Hooks
    /\ s_cb' = cb_err_custom(s_cb, "custom")
    /\ UNCHANGED <<sk, cb, api, pc, n, err, multipart, interrupted, nrecv,
                   hdr, at, hook, calls, dgrams, rv, ret, req, wire,
                   expect0, arg, other>>

\* values a replacement for recvmsgs may return
RecvmsgsOverrideRets == {2, 0, -NLE_INVAL}

\* nl_recvmsgs that runs recvmsgs whether or not a replacement is bound
CallRecvmsgs_Builtin ==
    /\ pc = "idle"
    /\ Enter(s_cb, "nl_recvmsgs")
    /\ UNCHANGED <<sk, req, wire, expect0, arg, other>>

\* nl_recvmsgs(sk, sk->s_cb), through nl_recvmsgs_report: recvmsgs or, if
\* bound, cb_recvmsgs_ow, whose result nl_recvmsgs_report returns (rv)
CallRecvmsgs ==
    /\ pc = "idle"
    /\ IF s_cb.cb_recvmsgs_ow # "NULL"
       THEN /\ \E v \in RecvmsgsOverrideRets : Return(v)
            /\ cb' = s_cb
            /\ api' = "nl_recvmsgs"
            /\ UNCHANGED <<s_cb, n, err, multipart, interrupted, nrecv, hdr,
                           at, hook, calls, dgrams>>
       ELSE Enter(s_cb, "nl_recvmsgs")
    /\ UNCHANGED <<sk, req, wire, expect0, arg, other>>

\* nl_wait_for_ack(sk): a clone of sk->s_cb with ack_wait_handler for ACK
CallWaitForAck ==
    /\ pc = "idle"
    /\ Enter(cb_set_custom(nl_cb_clone(s_cb), "ACK", "ack_wait_handler"),
             "nl_wait_for_ack")
    /\ UNCHANGED <<sk, req, wire, expect0, arg, other>>

\* nl_send_sync(sk, msg): nl_send_auto, nlmsg_free, then wait_for_ack
CallSendSync ==
    /\ pc = "idle"
    /\ \E m \in Requests :
       \E sent \in SendResults(m),
          out \in (IF Bound(s_cb, "MSG_OUT")
                   THEN HandlerRets(s_cb.cb_set["MSG_OUT"]) ELSE {NL_OK}) :
         LET done == nl_complete_msg(sk, m)
             e == nl_sendmsg(out, sent)
         IN  /\ sk' = done.sk
             /\ req' = nlmsg_free(done.msg)
             /\ wire' = (out = NL_OK /\ sent >= 0)
             /\ IF e < 0 \/ wait_for_ack_skips(sk) THEN
                    /\ pc' = "done"
                    /\ api' = "nl_send_sync"
                    /\ ret' = IF e < 0 THEN e ELSE 0
                    /\ UNCHANGED <<s_cb, cb, n, err, multipart, interrupted,
                                   nrecv, hdr, at, hook, calls, dgrams, rv,
                                   expect0, arg, other>>
                ELSE
                    Enter(cb_set_custom(nl_cb_clone(s_cb), "ACK",
                                        "ack_wait_handler"), "nl_send_sync")

\* continue_reading: src returns a datagram, 0 or an error.  A datagram
\* holds k well-formed frames (none when it is all garbage); n counts them.
\* at names the replacement when the datagram came from one.
ReadFrom(src) ==
    /\ pc = "read"
    /\ \/ /\ dgrams < MaxFrames
          /\ \E k \in 0 .. (MaxFrames - nrecv) :
               /\ n' = k
               /\ dgrams' = dgrams + 1
               /\ pc' = "while"
               /\ hdr' = NoFrame
               /\ at' = src
               /\ calls' = << >>
               /\ UNCHANGED <<rv, ret>>
       \/ /\ \E r \in {0, -NLE_NOADDR} : Return(r)
          /\ UNCHANGED <<n, dgrams, hdr, at, calls>>
    /\ UNCHANGED <<sk, s_cb, cb, api, err, multipart, interrupted, nrecv,
                   hook, req, wire, expect0, arg, other>>

\* n = nl_recv(sk, &nla, &buf, &creds) when no replacement is bound
Recv ==
    /\ cb.cb_recv_ow = "NULL"
    /\ ReadFrom("none")

\* n = cb->cb_recv_ow(sk, &nla, &buf, &creds)
RecvOverride ==
    /\ cb.cb_recv_ow # "NULL"
    /\ ReadFrom("cb_recv_ow")

\* while (nlmsg_ok(hdr, n)): the next frame is converted to a Message and
\* the body runs up to its first handler invocation
Fetch ==
    /\ pc = "while"
    /\ n > 0
    /\ \E h \in Frames(sk.s_seq_expect) :
         /\ hdr' = h
         /\ nrecv' = nrecv + 1
         /\ Leave(MsgIn(cb, sk.s_flags, h, Locals), nrecv + 1)
    /\ calls' = << >>
    /\ expect0' = sk.s_seq_expect
    /\ UNCHANGED <<s_cb, cb, api, dgrams, req, wire, arg, other>>

\* nlmsg_convert returns NULL: err = -NLE_NOMEM; goto out
ConvertFails ==
    /\ pc = "while"
    /\ n > 0
    /\ Leave(Out("convert", Locals, -NLE_NOMEM), nrecv)
    /\ calls' = << >>
    /\ UNCHANGED <<s_cb, cb, api, nrecv, hdr, dgrams, req, wire, expect0, arg,
                   other>>

\* label skip: err = 0; hdr = nlmsg_next(hdr, &n).  The record of the frame
\* just left is dropped when another frame follows in the datagram and kept,
\* as the last frame of the datagram, when none does.
NextFrame ==
    /\ pc = "skip"
    /\ pc' = "while"
    /\ err' = 0
    /\ n' = n - 1
    /\ IF n > 1
       THEN /\ hdr' = NoFrame
            /\ at' = "none"
            /\ calls' = << >>
       ELSE UNCHANGED <<hdr, at, calls>>
    /\ UNCHANGED <<sk, s_cb, cb, api, multipart, interrupted, nrecv, hook,
                   dgrams, rv, ret, req, wire, expect0, arg, other>>

\* the datagram is exhausted and recvmsgs stops whatever multipart says
EndOfBuffer_Once ==
    /\ pc = "while"
    /\ n = 0
    /\ err' = Epilogue("stop", err, interrupted, nrecv)
    /\ Return(Epilogue("stop", err, interrupted, nrecv))
    /\ UNCHANGED <<sk, s_cb, cb, api, n, multipart, interrupted, nrecv,
                   hdr, at, hook, calls, dgrams, req, wire, expect0, arg,
                   other>>

\* the datagram is exhausted: read on if multipart, else stop
EndOfBuffer ==
    /\ pc = "while"
    /\ n = 0
    /\ IF multipart THEN
           /\ pc' = "read"
           /\ UNCHANGED <<err, rv, ret>>
       ELSE
           /\ err' = Epilogue("stop", err, interrupted, nrecv)
           /\ Return(Epilogue("stop", err, interrupted, nrecv))
    /\ UNCHANGED <<sk, s_cb, cb, api, n, multipart, interrupted, nrecv,
                   hdr, at, hook, calls, dgrams, req, wire, expect0, arg,
                   other>>

\* the handler of a hook slot returns r
HookReturns ==
    /\ pc = "call"
    /\ hook # "ERR"
    /\ cb.cb_set[hook] # "pickup_answer"
    /\ \E r \in HandlerRets(cb.cb_set[hook]) :
         /\ calls' = Append(calls, [hook |-> hook, ret |-> r])
         /\ Leave(NL_CB_CALL(r, at, cb, sk.s_flags, hdr, Locals), nrecv)
    /\ UNCHANGED <<s_cb, cb, api, nrecv, hdr, dgrams, req, wire, expect0, arg,
                   other>>

\* the error callback returns r
ErrHookReturns ==
    /\ pc = "call"
    /\ hook = "ERR"
    /\ \E r \in RetVals :
         /\ calls' = Append(calls, [hook |-> hook, ret |-> r])
         /\ Leave(CbErrCall(r, hdr, Locals), nrecv)
    /\ UNCHANGED <<s_cb, cb, api, nrecv, hdr, dgrams, req, wire, expect0, arg,
                   other>>

(* --------------------- the application's send-side calls --------------- *)
(* These calls return to the application at once: pc stays "idle", api     *)
(* names the call made last, ret holds what it returned and at names the   *)
(* function that was given the message to send.                            *)

\* the application builds a message (nlmsg_alloc, nlmsg_put, ...)
Build ==
    /\ pc = "idle"
    /\ req' \in Messages
    /\ api' = "build"
    /\ at' = "none"
    /\ wire' = FALSE
    /\ ret' = 0
    /\ UNCHANGED <<sk, s_cb, cb, pc, n, err, multipart, interrupted, nrecv,
                   hdr, hook, calls, dgrams, rv, expect0, arg, other>>

\* nl_complete_msg(sk, msg), also known as nl_auto_complete; api tells a
\* repeated call on the same message from the first one
CallCompleteMsg ==
    /\ pc = "idle"
    /\ req # NoReq
    /\ sk' = nl_complete_msg(sk, req).sk
    /\ req' = nl_complete_msg(sk, req).msg
    /\ api' = IF api \in {"nl_complete_msg", "nl_complete_msg twice"}
              THEN "nl_complete_msg twice" ELSE "nl_complete_msg"
    /\ UNCHANGED <<s_cb, cb, pc, n, err, multipart, interrupted, nrecv,
                   hdr, at, hook, calls, dgrams, rv, ret, wire, expect0, arg,
                   other>>

\* values a replacement for nl_send may return; the library does not
\* write the datagram itself when one is bound
OverrideRets == {0, -NLE_INVAL}

\* nl_send(sk, msg): through nl_send_iovec to nl_sendmsg
CallSend ==
    /\ pc = "idle"
    /\ req # NoReq
    /\ \E sent \in SendResults(req),
          out \in (IF Bound(s_cb, "MSG_OUT")
                   THEN HandlerRets(s_cb.cb_set["MSG_OUT"]) ELSE {NL_OK}) :
         /\ ret' = nl_sendmsg(out, sent)
         /\ wire' = (out = NL_OK /\ sent >= 0)
    /\ api' = "nl_send"
    /\ at' = "nl_send"
    /\ UNCHANGED <<sk, s_cb, cb, pc, n, err, multipart, interrupted, nrecv,
                   hdr, hook, calls, dgrams, rv, req, expect0, arg, other>>

\* nl_send_auto(sk, msg): nl_complete_msg, then cb_send_ow or nl_send
CallSendAuto ==
    /\ pc = "idle"
    /\ req # NoReq
    /\ sk' = nl_complete_msg(sk, req).sk
    /\ req' = nl_complete_msg(sk, req).msg
    /\ IF s_cb.cb_send_ow # "NULL"
       THEN /\ ret' \in OverrideRets
            /\ wire' = FALSE
            /\ at' = "cb_send_ow"
       ELSE \E sent \in SendResults(req),
               out \in (IF Bound(s_cb, "MSG_OUT")
                        THEN HandlerRets(s_cb.cb_set["MSG_OUT"])
                        ELSE {NL_OK}) :
              /\ ret' = nl_sendmsg(out, sent)
              /\ wire' = (out = NL_OK /\ sent >= 0)
              /\ at' = "nl_send"
    /\ api' = "nl_send_auto"
    /\ UNCHANGED <<s_cb, cb, pc, n, err, multipart, interrupted, nrecv,
                   hdr, hook, calls, dgrams, rv, expect0, arg, other>>

\* nlmsg_alloc_simple(ReqType, 0) for the one request of a scenario
AllocRequest ==
    /\ pc = "idle"
    /\ req = NoReq
    /\ req' \in Requests
    /\ UNCHANGED <<sk, s_cb, cb, api, pc, n, err, multipart, interrupted,
                   nrecv, hdr, at, hook, calls, dgrams, rv, ret, wire,
                   expect0, arg, other>>

\* nl_cb_overwrite_recvmsgs(sk->s_cb, func)
CbOverwriteRecvmsgs ==
    /\ pc = "idle"
    /\ s_cb.cb_recvmsgs_ow = "NULL"
    /\ s_cb' = [s_cb EXCEPT !.cb_recvmsgs_ow = "custom"]
    /\ UNCHANGED <<sk, cb, api, pc, n, err, multipart, interrupted, nrecv,
                   hdr, at, hook, calls, dgrams, rv, ret, req, wire,
                   expect0, arg, other>>

\* nl_cb_overwrite_recv(sk->s_cb, func)
CbOverwriteRecv ==
    /\ pc = "idle"
    /\ s_cb.cb_recv_ow = "NULL"
    /\ s_cb' = [s_cb EXCEPT !.cb_recv_ow = "custom"]
    /\ UNCHANGED <<sk, cb, api, pc, n, err, multipart, interrupted, nrecv,
                   hdr, at, hook, calls, dgrams, rv, ret, req, wire,
                   expect0, arg, other>>

\* nl_cb_overwrite_send(sk->s_cb, func)
CbOverwriteSend ==
    /\ pc = "idle"
    /\ s_cb.cb_send_ow = "NULL"
    /\ s_cb' = [s_cb EXCEPT !.cb_send_ow = "custom"]
    /\ UNCHANGED <<sk, cb, api, pc, n, err, multipart, interrupted, nrecv,
                   hdr, at, hook, calls, dgrams, rv, ret, req, wire,
                   expect0, arg, other>>

(* --------------------------- nl_pickup --------------------------------- *)

\* nl_pickup(sk, parser, result): -NLE_NOMEM when nl_cb_clone fails, else
\* nl_recvmsgs with __pickup_answer bound to NL_CB_VALID in the clone
CallPickup ==
    /\ pc = "idle"
    /\ pick' = NoPick
    /\ api' = "nl_pickup"
    /\ \E ok \in BOOLEAN :
         IF ok
         THEN /\ cb' = cb_set_custom(nl_cb_clone(s_cb), "VALID",
                                     "pickup_answer")
              /\ pc' = "read"
              /\ n' = 0
              /\ err' = 0
              /\ multipart' = FALSE
              /\ interrupted' = FALSE
              /\ nrecv' = 0
              /\ UNCHANGED <<rv, ret>>
         ELSE /\ pc' = "done"
              /\ rv' = -NLE_NOMEM
              /\ ret' = -NLE_NOMEM
              /\ UNCHANGED <<cb, n, err, multipart, interrupted, nrecv>>
    /\ UNCHANGED <<sk, s_cb, hdr, at, hook, calls, dgrams, req, wire,
                   expect0, arg, stream, conn, heap, rx,
                   more>>

\* __pickup_answer(msg, arg) returns what the parser returns; the object
\* the parser hands to __store_answer is the one of the frame hdr
PickupAnswer ==
    /\ pc = "call"
    /\ hook = "VALID"
    /\ cb.cb_set[hook] = "pickup_answer"
    /\ \E o \in ParserOutcomes :
         /\ calls' = Append(calls, [hook |-> hook, ret |-> o.ret])
         /\ pick' = IF o.store THEN store_answer(pick, nrecv) ELSE pick
         /\ Leave(NL_CB_CALL(o.ret, at, cb, sk.s_flags, hdr, Locals), nrecv)
    /\ UNCHANGED <<s_cb, cb, api, nrecv, hdr, dgrams, req, wire, expect0, arg,
                   stream, conn, heap, rx,
                   more>>

(* ---------------------------- nl_recv ---------------------------------- *)

\* everything but rx, api and ret
RxFrame ==
    UNCHANGED <<sk, s_cb, cb, pc, n, err, multipart, interrupted, nrecv, hdr,
                at, hook, calls, dgrams, rv, req, wire, expect0, arg, stream,
                conn, heap, pick,
                   more>>

\* the peer sends a datagram
Arrive ==
    /\ rx.sent < MaxFrames
    /\ \E size \in DgramSizes :
         rx' = [rx EXCEPT !.sent = @ + 1,
                          !.queue = Append(@, [id |-> rx.sent + 1,
                                               size |-> size])]
    /\ UNCHANGED <<api, ret>>
    /\ RxFrame

\* nl_recv(sk, nla, buf, creds) up to the label retry; NL_SOCK_PASSCRED
\* is clear
CallRecv ==
    /\ pc = "idle"
    /\ rx.at # "retry"
    /\ \E peek \in BOOLEAN, nonblock \in BOOLEAN, s_bufsize \in BufSizes :
         rx' = [rx EXCEPT !.at = "retry", !.peek = peek,
                          !.nonblock = nonblock,
                          !.iov_len = recv_iov_len(s_bufsize),
                          !.size0 = recv_iov_len(s_bufsize),
                          !.flags = recv_flags(peek),
                          !.first = NoDgram,
                          !.buf = [id |-> 0, octets |-> 0],
                          !.calls = 0, !.failed = FALSE]
    /\ api' = "nl_recv"
    /\ UNCHANGED ret
    /\ RxFrame

\* n = recvmsg(sk->s_fd, &msg, flags) fails: EAGAIN on an empty queue of a
\* non-blocking socket returns 0, another error its code
RecvFails ==
    /\ rx.at = "retry"
    /\ \/ /\ rx.queue = << >>
          /\ rx.nonblock
          /\ rx' = [rx EXCEPT !.at = "done", !.buf = [id |-> 0, octets |-> 0]]
          /\ ret' = 0
       \/ \E e \in SysErrs :
            /\ rx' = [rx EXCEPT !.at = "done", !.failed = TRUE,
                                !.buf = [id |-> 0, octets |-> 0]]
            /\ ret' = -e
    /\ UNCHANGED api
    /\ RxFrame

\* n = recvmsg(sk->s_fd, &msg, flags) finds a datagram, and what nl_recv
\* does up to the next recvmsg or its return
RecvRetry ==
    /\ rx.at = "retry"
    /\ rx.queue # << >>
    /\ LET d == Head(rx.queue)
           r == recvmsg(d, rx.iov_len, rx.flags)
           got == [rx EXCEPT !.queue = IF r.consumed THEN Tail(@) ELSE @,
                             !.buf = [id |-> d.id, octets |-> r.octets],
                             !.first = IF rx.calls = 0 THEN d ELSE @,
                             !.calls = @ + 1]
           next == recv_after(r, rx.iov_len, rx.flags)
       IN  \/ /\ next = "grow"
              /\ rx' = [got EXCEPT !.iov_len = r.n, !.flags = {}]
              /\ UNCHANGED ret
           \/ /\ next = "read"
              /\ rx' = [got EXCEPT !.flags = {}]
              /\ UNCHANGED ret
           \/ /\ next = "return"
              /\ \E namelen_ok \in BOOLEAN :
                   /\ rx' = [got EXCEPT !.at = "done",
                                        !.failed = ~namelen_ok]
                   /\ ret' = IF namelen_ok THEN r.n ELSE -NLE_NOADDR
    /\ UNCHANGED api
    /\ RxFrame

(* ----------------- recvmsgs, followed through its memory --------------- *)

\* everything but mem and api
MemFrame ==
    UNCHANGED <<sk, s_cb, cb, pc, n, err, multipart, interrupted, nrecv, hdr,
                at, hook, calls, dgrams, rv, ret, req, wire, expect0, arg,
                stream, conn, heap, pick, rx, set, temp, refs, batch>>

\* recvmsgs(sk, cb) is entered
MemEnter ==
    /\ pc = "idle"
    /\ mem.at \in {"idle", "done"}
    /\ mem' = [NoMem EXCEPT !.at = "read"]
    /\ api' = "recvmsgs"
    /\ MemFrame

\* continue_reading: n = recv(sk, &nla, &buf, &creds); return n if n <= 0
MemRead ==
    /\ mem.at = "read"
    /\ \/ /\ mem.dgrams < MaxFrames
          /\ \E k \in 0 .. MaxFrames, withcreds \in BOOLEAN :
               mem' = mem_recv(mem, k, withcreds)
       \/ mem' = mem_recv_fails(mem)
    /\ UNCHANGED api
    /\ MemFrame

\* while (nlmsg_ok(hdr, n)): the top of the body
MemConvert ==
    /\ mem.at = "while"
    /\ mem.frames > 0
    /\ \E ok \in BOOLEAN : mem' = mem_convert(mem, ok)
    /\ UNCHANGED api
    /\ MemFrame

\* the rest of the body ends at skip (or falls through to it), at stop or
\* at out
MemBody ==
    /\ mem.at = "body"
    /\ \/ mem' = [mem EXCEPT !.frames = @ - 1, !.at = "while"]
       \/ mem' = mem_out(mem)
    /\ UNCHANGED api
    /\ MemFrame

\* nlmsg_ok fails: the code behind the loop
MemEnd ==
    /\ mem.at = "while"
    /\ mem.frames = 0
    /\ \E more_parts \in BOOLEAN : mem' = mem_end(mem, more_parts)
    /\ UNCHANGED api
    /\ MemFrame

(* ------------------- the application builds a message ------------------ *)
(* req is the message being built; api names the function called last and *)
(* arg holds its arguments.  An allocation may fail.  The application     *)
(* builds one message at a time.                                           *)

\* lengths of the room asked of nlmsg_reserve, nlmsg_append and nlmsg_put
Lens == {1, 4}

\* pads handed to nlmsg_reserve and nlmsg_append
Pads == {0, 2, NLMSG_ALIGNTO}

\* headers handed to nlmsg_inherit and nlmsg_convert
Headers == [nlmsg_len : {nlmsg_msg_size(0), nlmsg_msg_size(1),
                         nlmsg_msg_size(4)},
            nlmsg_type : {ReqType}, nlmsg_flags : {{"ACK"}},
            nlmsg_seq : {Seed}, nlmsg_pid : {NL_AUTO_PORT}]

\* what a call to a function of msg.c leaves alone
MsgCall(fn, a) ==
    /\ pc = "idle"
    /\ api' = fn
    /\ arg' = a
    /\ UNCHANGED <<sk, s_cb, cb, pc, n, err, multipart, interrupted, nrecv,
                   hdr, at, hook, calls, dgrams, rv, ret, wire, expect0,
                   other>>

\* nlmsg_alloc()
MsgAlloc ==
    /\ req = NoReq
    /\ \E ok \in BOOLEAN :
         /\ req' = IF ok THEN nlmsg_alloc ELSE NoReq
         /\ MsgCall("nlmsg_alloc", [NoArg EXCEPT !.ok = ok])

\* nlmsg_alloc_simple(nlmsgtype, flags)
MsgAllocSimple ==
    /\ req = NoReq
    /\ \E ok \in BOOLEAN, flags \in {{"ACK"}} :
         /\ req' = IF ok THEN nlmsg_alloc_simple(ReqType, flags) ELSE NoReq
         /\ MsgCall("nlmsg_alloc_simple", [NoArg EXCEPT !.ok = ok])

\* nlmsg_inherit(hdr)
MsgInherit ==
    /\ req = NoReq
    /\ \E ok \in BOOLEAN, h \in Headers :
         /\ req' = IF ok THEN nlmsg_inherit(h) ELSE NoReq
         /\ MsgCall("nlmsg_inherit",
                    [NoArg EXCEPT !.ok = ok, !.hdrlen = h.nlmsg_len])

\* nlmsg_convert(hdr)
MsgConvert ==
    /\ req = NoReq
    /\ \E ok \in BOOLEAN, h \in Headers :
         /\ req' = IF ok THEN nlmsg_convert(h) ELSE NoReq
         /\ MsgCall("nlmsg_convert",
                    [NoArg EXCEPT !.ok = ok, !.hdrlen = h.nlmsg_len])

\* nlmsg_reserve(n, len, pad); NULL and n untouched when realloc fails
MsgReserve ==
    /\ req # NoReq
    /\ \E ok \in BOOLEAN, len \in Lens, pad \in Pads, junk \in Junk :
         /\ req.nlmsg_len + reserve_tlen(len, pad) <= MaxLen
         /\ req' = IF ok THEN nlmsg_reserve(req, len, pad, junk) ELSE req
         /\ MsgCall("nlmsg_reserve",
                    [NoArg EXCEPT !.ok = ok, !.len = len, !.pad = pad,
                                  !.off = IF ok THEN req.nlmsg_len ELSE -1])

\* octet values of the data handed to nlmsg_append
Octets == {2, 3}

\* nlmsg_append(n, data, len, pad): nlmsg_reserve, then memcpy
MsgAppend ==
    /\ req # NoReq
    /\ \E ok \in BOOLEAN, len \in Lens, pad \in Pads, junk \in Junk,
          octet \in Octets :
         /\ req.nlmsg_len + reserve_tlen(len, pad) <= MaxLen
         /\ req' = IF ok THEN nlmsg_append(req, octet, len, pad, junk)
                   ELSE req
         /\ MsgCall("nlmsg_append",
                    [NoArg EXCEPT !.ok = ok, !.len = len, !.pad = pad,
                                  !.octet = octet,
                                  !.off = IF ok THEN req.nlmsg_len ELSE -1])

\* nlmsg_put(n, pid, seq, type, payload, flags): the header is written
\* before the room for the payload is reserved
MsgPut ==
    /\ req # NoReq
    /\ \E ok \in BOOLEAN, payload \in Lens \cup {0}, junk \in Junk,
          pid \in {LocalPort},
          seq \in {NL_AUTO_SEQ, Seed + 2}, flags \in {{"ACK"}} :
         /\ req.nlmsg_len + reserve_tlen(payload, NLMSG_ALIGNTO) <= MaxLen
         /\ ok \/ payload > 0
         /\ req' = IF ok
                   THEN nlmsg_put(req, pid, seq, ReqType, payload, flags,
                                  junk)
                   ELSE nlmsg_put_hdr(req, pid, seq, ReqType, flags)
         /\ MsgCall("nlmsg_put",
                    [NoArg EXCEPT !.ok = ok, !.len = payload,
                                  !.pad = NLMSG_ALIGNTO, !.pid = pid,
                                  !.seq = seq, !.flags = flags])

(* ------------- the application connects and closes the socket ---------- *)

\* nl_connect(sk, protocol)
CallConnect ==
    /\ pc = "idle"
    /\ \E protocol \in Protocols, o \in Outcomes :
         /\ o.fd \notin conn.open
         /\ o.fail = "bufsize" => ~conn.sock.bufsize_set
         /\ LET r == nl_connect(conn.sock, conn.open, protocol, o)
            IN  /\ conn' = [conn EXCEPT !.sock = r.sock, !.open = r.open,
                                        !.protocol = protocol,
                                        !.fail = IF conn.sock.s_fd # -1
                                                 THEN "none" ELSE o.fail]
                /\ ret' = r.ret
    /\ api' = "nl_connect"
    /\ UNCHANGED <<sk, s_cb, cb, pc, n, err, multipart, interrupted, nrecv,
                   hdr, at, hook, calls, dgrams, rv, req, wire, expect0, arg,
                   stream, heap, pick, rx,
                   more>>

\* nl_close(sk)
CallClose ==
    /\ pc = "idle"
    /\ LET r == nl_close(conn.sock, conn.open)
       IN  conn' = [conn EXCEPT !.sock = r.sock, !.open = r.open,
                                !.closed = @ \/ conn.sock.s_fd >= 0]
    /\ api' = "nl_close"
    /\ UNCHANGED <<sk, s_cb, cb, pc, n, err, multipart, interrupted, nrecv,
                   hdr, at, hook, calls, dgrams, rv, ret, req, wire, expect0,
                   arg, stream, heap, pick, rx,
                   more>>

(* ------------- the application works on callback set objects ----------- *)

\* a call on the struct nl_cb at a that leaves it as o
CbCall(fn, a, o) ==
    /\ pc = "idle"
    /\ heap' = [heap EXCEPT !.obj[a] = o, !.on = a, !.new = 0]
    /\ api' = fn
    /\ UNCHANGED <<sk, s_cb, cb, pc, n, err, multipart, interrupted, nrecv,
                   hdr, at, hook, calls, dgrams, rv, ret, req, wire, expect0,
                   arg, stream, conn, pick, rx,
                   more>>

\* the struct nl_cb at a is allocated
Live(a) == heap.obj[a].cb_refcnt > 0

\* nl_cb_get(cb)
CbGet ==
    \E a \in Addrs :
       /\ Live(a)
       /\ heap.obj[a].cb_refcnt < MaxRefs
       /\ CbCall("nl_cb_get", a, cb_get(heap.obj[a]))

\* nl_cb_put(cb); the socket keeps its reference to sk->s_cb
CbPut ==
    \E a \in Addrs :
       /\ Live(a)
       /\ a = 1 => heap.obj[a].cb_refcnt > 1
       /\ CbCall("nl_cb_put", a, cb_put(heap.obj[a]))

\* nl_cb_set(cb, type, NL_CB_CUSTOM, func, arg)
CbSetOn ==
    \E a \in Addrs, t \in CloneHooks :
       /\ Live(a)
       /\ ~Bound(heap.obj[a].cb, t)
       /\ CbCall("nl_cb_set", a, cb_set_obj(heap.obj[a], t, "custom", 1))

\* nl_cb_err(cb, NL_CB_CUSTOM, func, arg)
CbErrOn ==
    \E a \in Addrs :
       /\ Live(a)
       /\ heap.obj[a].cb.cb_err = "NULL"
       /\ CbCall("nl_cb_err", a, cb_err_obj(heap.obj[a], "custom", 1))

\* nl_cb_overwrite_recvmsgs / _recv / _send (cb, func)
CbOverwriteOn ==
    \E a \in Addrs, ow \in Overrides :
       /\ Live(a)
       /\ heap.obj[a].cb[ow] = "NULL"
       /\ CbCall("nl_cb_overwrite", a, cb_overwrite(heap.obj[a], ow, "custom"))

\* nl_cb_clone(orig); NULL when calloc fails
CbClone ==
    /\ pc = "idle"
    /\ \E a \in Addrs, b \in Addrs, ok \in BOOLEAN :
         /\ Live(a)
         /\ ~Live(b)
         /\ heap' = IF ok
                    THEN [heap EXCEPT !.obj[b] = cb_clone(heap.obj[a]),
                                      !.on = a, !.new = b]
                    ELSE [heap EXCEPT !.on = a, !.new = 0]
    /\ api' = "nl_cb_clone"
    /\ UNCHANGED <<sk, s_cb, cb, pc, n, err, multipart, interrupted, nrecv,
                   hdr, at, hook, calls, dgrams, rv, ret, req, wire, expect0,
                   arg, stream, conn, pick, rx,
                   more>>

\* nl_cb_set(cb, type, kind, func, arg) with any type and kind
CbSetKind ==
    /\ pc = "idle"
    /\ set.count < MaxSets
    /\ \E a \in Addrs, type \in TypeArgs, kind \in KindArgs, v \in {2} :
         LET r == nl_cb_set(heap.obj[a], type, kind, "custom", v)
         IN  /\ Live(a)
             /\ heap' = [heap EXCEPT !.obj[a] = r.obj, !.on = a, !.new = 0]
             /\ set' = [count |-> set.count + 1, on |-> a, type |-> type,
                        kind |-> kind, func |-> "custom", arg |-> v,
                        ret |-> r.ret]
    /\ api' = "nl_cb_set"
    /\ UNCHANGED <<sk, s_cb, cb, pc, n, err, multipart, interrupted, nrecv,
                   hdr, at, hook, calls, dgrams, rv, ret, req, wire, expect0,
                   arg, stream, conn, pick, rx, mem, temp, refs, batch>>

(* -------- nl_wait_for_ack and nl_pickup with the sets in memory -------- *)

\* the application prepares sk->s_cb
OwnSetup ==
    /\ pc = "idle"
    /\ \E o \in Setups(heap.obj[1]) :
         /\ heap' = [heap EXCEPT !.obj[1] = o, !.on = 1, !.new = 0]
         /\ s_cb' = o.cb
    /\ UNCHANGED <<sk, cb, api, pc, n, err, multipart, interrupted, nrecv,
                   hdr, at, hook, calls, dgrams, rv, ret, req, wire, expect0,
                   arg, stream, conn, pick, rx, mem, set, temp, refs,
                   batch>>

\* nl_wait_for_ack(sk) or nl_pickup(sk, parser, result) up to nl_recvmsgs;
\* -NLE_NOMEM when nl_cb_clone returns NULL
CallTemp ==
    /\ pc = "idle"
    /\ pick' = NoPick
    /\ \E fn \in {"nl_wait_for_ack", "nl_pickup"}, ok \in BOOLEAN :
         /\ api' = fn
         /\ IF ok
            THEN /\ heap' = [heap EXCEPT !.obj[2] = temp_clone(heap.obj[1], fn),
                                         !.on = 1, !.new = 2]
                 /\ temp' = [NoTemp EXCEPT !.cb = 2, !.before = heap.obj[1]]
                 /\ cb' = temp_clone(heap.obj[1], fn).cb
                 /\ pc' = "read"
                 /\ n' = 0
                 /\ err' = 0
                 /\ multipart' = FALSE
                 /\ interrupted' = FALSE
                 /\ nrecv' = 0
                 /\ UNCHANGED <<rv, ret>>
            ELSE /\ heap' = [heap EXCEPT !.on = 1, !.new = 0]
                 /\ temp' = [NoTemp EXCEPT !.before = heap.obj[1]]
                 /\ pc' = "returned"
                 /\ rv' = -NLE_NOMEM
                 /\ ret' = -NLE_NOMEM
                 /\ UNCHANGED <<cb, n, err, multipart, interrupted, nrecv>>
    /\ UNCHANGED <<sk, s_cb, hdr, at, hook, calls, dgrams, req, wire,
                   expect0, arg, stream, conn, rx, mem, set, refs, batch>>

\* nl_recvmsgs has returned: *result = pp.result unless err < 0, then
\* nl_cb_put(cb) and return err
TempReturn ==
    /\ pc = "done"
    /\ temp.cb # 0
    /\ pick' = IF api = "nl_pickup"
               THEN [pick EXCEPT !.result0 = pickup_result(pick, ret)]
               ELSE pick
    /\ heap' = temp_put(temp, heap).heap
    /\ temp' = temp_put(temp, heap).temp
    /\ pc' = "returned"
    /\ UNCHANGED <<sk, s_cb, cb, api, n, err, multipart, interrupted, nrecv,
                   hdr, at, hook, calls, dgrams, rv, ret, req, wire, expect0,
                   arg, stream, conn, rx, mem, set, refs, batch>>

(* ------------- the application takes and drops references -------------- *)

\* everything but heap, refs and api
RefFrame ==
    UNCHANGED <<sk, s_cb, cb, pc, n, err, multipart, interrupted, nrecv,
                hdr, at, hook, calls, dgrams, rv, ret, req, wire, expect0,
                arg, stream, conn, pick, rx, mem, set, temp, batch>>

\* nl_cb_alloc(NL_CB_DEFAULT) or nl_cb_clone(orig) returns a new set
RefMake ==
    /\ pc = "idle"
    /\ \E b \in Addrs, fn \in {"nl_cb_alloc", "nl_cb_clone"} :
         /\ ~Live(b)
         /\ heap' = [heap EXCEPT !.obj[b] = IF fn = "nl_cb_alloc" THEN cb_alloc
                                            ELSE cb_clone(heap.obj[1]),
                                 !.on = IF fn = "nl_cb_alloc" THEN 0 ELSE 1,
                                 !.new = b]
         /\ refs' = [refs EXCEPT ![b] = [made |-> TRUE, gets |-> 0,
                                         puts |-> 0, frees |-> 0]]
         /\ api' = fn
    /\ RefFrame

\* nl_cb_get(cb)
RefGet ==
    /\ pc = "idle"
    /\ \E a \in Addrs :
         /\ Live(a)
         /\ refs[a].gets < MaxGets
         /\ heap' = [heap EXCEPT !.obj[a] = cb_get(@), !.on = a, !.new = 0]
         /\ refs' = [refs EXCEPT ![a].gets = @ + 1]
    /\ api' = "nl_cb_get"
    /\ RefFrame

\* nl_cb_put(cb) by a holder of a reference, or nl_cb_put(NULL); the
\* socket keeps its reference to sk->s_cb
RefPut ==
    /\ pc = "idle"
    /\ \E a \in Addrs \cup {0} :
         IF a = 0
         THEN /\ heap' = [heap EXCEPT !.on = 0, !.new = 0]
              /\ UNCHANGED refs
         ELSE /\ Live(a)
              /\ a = 1 => heap.obj[a].cb_refcnt > 1
              /\ heap' = [heap EXCEPT !.obj[a] = ref_put(@).obj,
                                      !.on = a, !.new = 0]
              /\ refs' = [refs EXCEPT ![a].puts = @ + 1,
                                      ![a].frees = IF ref_put(heap.obj[a]).freed
                                                   THEN @ + 1 ELSE @]
    /\ api' = "nl_cb_put"
    /\ RefFrame

(* ------------- recvmsgs receives a well-formed multipart batch --------- *)

\* nl_recvmsgs(sk, sk->s_cb) with the default callback set; the peer has a
\* batch to send
BatchCall ==
    /\ pc = "idle"
    /\ s_cb = nl_cb_alloc
    /\ \E total \in 1 .. MaxBatch :
         batch' = [total |-> total, left |-> total, sent |-> 0]
    /\ cb' = s_cb
    /\ api' = "nl_recvmsgs"
    /\ pc' = "read"
    /\ n' = 0
    /\ err' = 0
    /\ multipart' = FALSE
    /\ interrupted' = FALSE
    /\ nrecv' = 0
    /\ UNCHANGED <<sk, s_cb, hdr, at, hook, calls, dgrams, rv, ret, req,
                   wire, expect0, arg, stream, conn, heap, pick, rx, mem,
                   set, temp, refs>>

\* n = nl_recv(...): the next datagram of the batch, k frames of it; recv
\* blocks when the peer has sent all it had
BatchRecv ==
    /\ pc = "read"
    /\ batch.total > 0
    /\ \E k \in 1 .. batch.left :
         /\ n' = k
         /\ batch' = [batch EXCEPT !.left = @ - k, !.sent = @ + 1]
    /\ dgrams' = dgrams + 1
    /\ pc' = "while"
    /\ hdr' = NoFrame
    /\ at' = "none"
    /\ calls' = << >>
    /\ UNCHANGED <<sk, s_cb, cb, api, err, multipart, interrupted, nrecv,
                   hook, rv, ret, req, wire, expect0, arg, stream, conn,
                   heap, pick, rx, mem, set, temp, refs>>

\* while (nlmsg_ok(hdr, n)): the body runs for the next frame of the batch
BatchFetch ==
    /\ pc = "while"
    /\ n > 0
    /\ batch.total > 0
    /\ \E h \in BatchFrames(sk.s_seq_expect, batch.left + n - 1) :
         /\ hdr' = h
         /\ nrecv' = nrecv + 1
         /\ Leave(MsgIn(cb, sk.s_flags, h, Locals), nrecv + 1)
    /\ calls' = << >>
    /\ expect0' = sk.s_seq_expect
    /\ UNCHANGED <<s_cb, cb, api, dgrams, req, wire, arg, other>>

(* ------------------ the application walks a stream --------------------- *)
(* while (nlmsg_ok(hdr, n)) hdr = nlmsg_next(hdr, &n): n is remaining,     *)
(* hdr.len the nlmsg_len at hdr, nrecv the frames stepped over.            *)

\* the header the loop test reads next, if its first operand lets it
HeaderRead(s, rem) ==
    IF ToUnsigned(rem) >= NLMSG_HDRLEN
    THEN {[NoFrame EXCEPT !.len = l] : l \in HeaderAt(s, s.size - rem)}
    ELSE {NoFrame}

\* nlmsg_ok(nlh, remaining) on any header and any int
CallOk ==
    /\ pc = "idle"
    /\ \E len \in 0 .. (WordModulus - 1), remaining \in IntMin .. IntMax :
         /\ hdr' = [NoFrame EXCEPT !.len = len]
         /\ n' = remaining
         /\ ret' = IF nlmsg_ok(len, remaining) THEN 1 ELSE 0
    /\ api' = "nlmsg_ok"
    /\ pc' = "done"
    /\ UNCHANGED <<sk, s_cb, cb, err, multipart, interrupted, nrecv,
                   at, hook, calls, dgrams, rv, req, wire, expect0, arg,
                   other>>

\* hdr = start of the stream, n = its size
WalkStart ==
    /\ pc = "idle"
    /\ \E s \in Streams :
         /\ stream' = s
         /\ n' = s.size
         /\ hdr' \in HeaderRead(s, s.size)
    /\ nrecv' = 0
    /\ pc' = "walk"
    /\ api' = "walk"
    /\ UNCHANGED <<sk, s_cb, cb, err, multipart, interrupted, at, hook,
                   calls, dgrams, rv, ret, req, wire, expect0, arg, conn,
                   heap, pick, rx,
                   more>>

\* nlmsg_ok holds: hdr = nlmsg_next(hdr, &n)
WalkNext ==
    /\ pc = "walk"
    /\ nlmsg_ok(hdr.len, n)
    /\ nlmsg_next(hdr.len, n) >= IntMin
    /\ n' = nlmsg_next(hdr.len, n)
    /\ hdr' \in HeaderRead(stream, nlmsg_next(hdr.len, n))
    /\ nrecv' = nrecv + 1
    /\ UNCHANGED <<sk, s_cb, cb, api, pc, err, multipart, interrupted, at,
                   hook, calls, dgrams, rv, ret, req, wire, expect0, arg,
                   other>>

\* nlmsg_ok fails: the loop ends
WalkEnd ==
    /\ pc = "walk"
    /\ ~nlmsg_ok(hdr.len, n)
    /\ pc' = "done"
    /\ UNCHANGED <<sk, s_cb, cb, api, n, err, multipart, interrupted, nrecv,
                   hdr, at, hook, calls, dgrams, rv, ret, req, wire, expect0,
                   arg, other>>

Init ==
    /\ sk \in [s_seq_next : {Seed}, s_seq_expect : {Seed},
               s_flags : {{}, {"NL_NO_AUTO_ACK"}},
               s_local_pid : {LocalPort}, s_proto : {NlProto}]
    /\ s_cb = nl_cb_alloc
    /\ cb = nl_cb_alloc
    /\ api = "none"
    /\ pc = "idle"
    /\ n = 0
    /\ err = 0
    /\ multipart = FALSE
    /\ interrupted = FALSE
    /\ nrecv = 0
    /\ hdr = NoFrame
    /\ at = "none"
    /\ hook = "NONE"
    /\ calls = << >>
    /\ dgrams = 0
    /\ rv = 0
    /\ ret = 0
    /\ req = NoReq
    /\ wire = FALSE
    /\ expect0 = Seed
    /\ arg = NoArg
    /\ stream = NoStream
    /\ conn = NoConn
    /\ heap = NoHeap
    /\ pick = NoPick
    /\ rx = NoRx
    /\ mem = NoMem
    /\ set = NoSet
    /\ temp = NoTemp
    /\ refs = NoRefs
    /\ batch = NoBatch

\* the application calls nl_recvmsgs
Next == CbSet \/ CbSetAll \/ CbErr \/ CallRecvmsgs
          \/ Recv \/ Fetch \/ ConvertFails \/ NextFrame \/ EndOfBuffer
          \/ HookReturns \/ ErrHookReturns

Spec == Init /\ [][Next]_vars

\* the application calls nl_send_sync or nl_wait_for_ack
NextSync == CbSet \/ CbSetAll \/ CbErr \/ CallSendSync \/ CallWaitForAck
          \/ Recv \/ Fetch \/ ConvertFails \/ NextFrame \/ EndOfBuffer
          \/ HookReturns \/ ErrHookReturns

SpecSync == Init /\ [][NextSync]_vars

\* the application builds messages, completes and sends them
NextSend == CbSetAll \/ CbOverwriteSend \/ Build \/ CallCompleteMsg
              \/ CallSend \/ CallSendAuto

SpecSend == Init /\ [][NextSend]_vars

\* the application replaces stages of the pipeline, then sends one request
\* and receives
NextOverride == CbOverwriteSend \/ CbOverwriteRecv \/ CbOverwriteRecvmsgs
                  \/ AllocRequest \/ CallSendAuto \/ CallRecvmsgs
                  \/ Recv \/ RecvOverride \/ Fetch \/ ConvertFails
                  \/ NextFrame \/ EndOfBuffer

SpecOverride == Init /\ [][NextOverride]_vars

\* the application builds and grows messages
NextMsg == MsgAlloc \/ MsgAllocSimple \/ MsgInherit \/ MsgConvert
             \/ MsgReserve \/ MsgAppend \/ MsgPut

SpecMsg == Init /\ [][NextMsg]_vars

\* the application tests headers and walks streams of frames
NextStream == CallOk \/ WalkStart \/ WalkNext \/ WalkEnd

SpecStream == Init /\ [][NextStream]_vars

\* the application connects and closes a socket and takes and drops
\* references to its callback set
NextConn == CallConnect \/ CallClose \/ CbGet \/ CbPut

SpecConn == Init /\ [][NextConn]_vars

\* the application clones callback sets and works on the copies
NextCb == CbClone \/ CbGet \/ CbPut \/ CbSetOn \/ CbErrOn \/ CbOverwriteOn

SpecCb == Init /\ [][NextCb]_vars

\* the application calls nl_pickup
NextPickup == CbSet \/ CbErr \/ CallPickup \/ PickupAnswer
          \/ Recv \/ Fetch \/ ConvertFails \/ NextFrame \/ EndOfBuffer
          \/ HookReturns \/ ErrHookReturns

SpecPickup == Init /\ [][NextPickup]_vars

\* the peer sends datagrams and the application calls nl_recv
NextRecv == Arrive \/ CallRecv \/ RecvFails \/ RecvRetry

SpecRecv == Init /\ [][NextRecv]_vars

\* recvmsgs runs; what it allocates and frees is followed
NextMem == MemEnter \/ MemRead \/ MemConvert \/ MemBody \/ MemEnd

SpecMem == Init /\ [][NextMem]_vars

\* the application prepares sk->s_cb and calls nl_wait_for_ack or nl_pickup
NextTemp == OwnSetup \/ CallTemp \/ TempReturn \/ PickupAnswer
          \/ Recv \/ Fetch \/ ConvertFails \/ NextFrame \/ EndOfBuffer
          \/ HookReturns \/ ErrHookReturns

SpecTemp == Init /\ [][NextTemp]_vars

\* recvmsgs with the default callback set reads a multipart batch
NextBatch == BatchCall \/ BatchRecv \/ BatchFetch \/ ConvertFails
           \/ NextFrame \/ EndOfBuffer

SpecBatch == Init /\ [][NextBatch]_vars

\* recvmsgs runs on, and recv returns the datagrams the peer has sent
BatchRuns == BatchRecv \/ BatchFetch \/ ConvertFails \/ NextFrame
           \/ EndOfBuffer

SpecBatchLive == SpecBatch /\ WF_vars(BatchRuns)

\* the application makes callback sets and takes and drops references
NextRef == RefMake \/ RefGet \/ RefPut

SpecRef == Init /\ [][NextRef]_vars

\* the application calls nl_cb_set with any type and kind
NextSet == CbSetKind \/ CbErrOn \/ CbOverwriteOn \/ CbGet

SpecSet == Init /\ [][NextSet]_vars

(* ---------------------- vocabulary of the properties ------------------- *)

\* a frame has been fetched and its processing has begun or just ended
InFrame == hdr # NoFrame

\* positions in calls where handler t was invoked for the frame hdr
CallsOf(t) == {i \in 1 .. Len(calls) : calls[i].hook = t}

\* handler t has been invoked for the frame hdr (it may not have returned)
Invoked(t) == CallsOf(t) # {} \/ (pc = "call" /\ hook = t)

\* the frame hdr got to the sequence check: MSG_IN is empty or returned NL_OK
ReachedSeqCheck ==
    /\ InFrame
    /\ Bound(cb, "MSG_IN") =>
         /\ Len(calls) >= 1
         /\ calls[1] = [hook |-> "MSG_IN", ret |-> NL_OK]

\* the built-in sequence check applies and the frame hdr fails it
SeqMismatch ==
    /\ ReachedSeqCheck
    /\ "NL_NO_AUTO_ACK" \notin sk.s_flags
    /\ ~Bound(cb, "SEQ_CHECK")
    /\ hdr.seq # expect0

\* no handler other than MSG_IN has been invoked for the frame hdr
OnlyMsgIn == \A i \in 1 .. Len(calls) : calls[i].hook = "MSG_IN"

(* ------------------------------- C1 ------------------------------------ *)

\* C1 as amended: with NO_AUTO_ACK clear and SEQ_CHECK empty, every frame
\* that gets to the sequence check with a sequence other than seq_expect
\* invokes INVALID if it is bound; if INVALID is empty the loop ends at that
\* frame, no classification handler having been invoked for it, and returns
\* -NLE_SEQ_MISMATCH, or -NLE_DUMP_INTR when an earlier frame of the
\* invocation carried DUMP_INTR with no DUMP_INTR handler bound.
C1_SeqMismatch ==
    SeqMismatch =>
        IF Bound(cb, "INVALID") THEN Invoked("INVALID")
        ELSE /\ pc = "done"
             /\ OnlyMsgIn
             /\ rv = IF interrupted THEN -NLE_DUMP_INTR ELSE -NLE_SEQ_MISMATCH

\* C1 as stated: the mismatch with INVALID empty always returns
\* -NLE_SEQ_MISMATCH
C1_Original ==
    SeqMismatch =>
        IF Bound(cb, "INVALID") THEN Invoked("INVALID")
        ELSE /\ pc = "done"
             /\ OnlyMsgIn
             /\ rv = -NLE_SEQ_MISMATCH

\* seq_expect = 7, the first frame carries sequence 9, nothing is bound
C1_Witness ==
    /\ pc = "done"
    /\ SeqMismatch
    /\ BoundSlots(cb) = {}
    /\ expect0 = Seed /\ hdr.seq = Seed + 2 /\ hdr.type = "DATA"
    /\ nrecv = 1
    /\ rv = -NLE_SEQ_MISMATCH

(* ------------------------------- C2 ------------------------------------ *)

\* the frame hdr got to the dispatch by message type
AtDispatch == InFrame /\ at = "dispatch"

\* the last handler invoked for the frame hdr, once it has returned
LastCall == calls[Len(calls)]

\* what recvmsgs returns for the outcome e of the loop, given interrupted
Surfaced(e) == IF interrupted THEN -NLE_DUMP_INTR ELSE e

\* C2: an invocation of recvmsgs in which a frame carried DUMP_INTR with no
\* DUMP_INTR handler bound returns -NLE_DUMP_INTR, however the loop ends.
C2_DumpIntr ==
    (pc = "done" /\ api = "nl_recvmsgs" /\ interrupted) => rv = -NLE_DUMP_INTR

\* one datagram with one frame flagged MULTI and DUMP_INTR, nothing bound;
\* the next nl_recv returns 0 and recvmsgs returns 0
C2_Lost ==
    /\ pc = "done" /\ api = "nl_recvmsgs"
    /\ BoundSlots(cb) = {}
    /\ interrupted /\ multipart
    /\ hdr.type = "DATA" /\ hdr.flags = {"MULTI", "DUMP_INTR"}
    /\ nrecv = 1 /\ dgrams = 1
    /\ rv = 0

(* ------------------------------- C3 ------------------------------------ *)

\* C3 as amended: FINISH is invoked only for DONE frames; a DONE frame that
\* gets to the dispatch by type clears multipart and, when FINISH is bound,
\* invokes FINISH exactly once before recvmsgs can return; when FINISH is
\* empty, or the frame is dropped or the loop ended before the dispatch,
\* FINISH is not invoked for it.
C3_Finish ==
    /\ Invoked("FINISH") => AtDispatch /\ hdr.type = "DONE"
    /\ Cardinality(CallsOf("FINISH")) <= 1
    /\ (AtDispatch /\ hdr.type = "DONE") =>
          /\ ~multipart
          /\ Invoked("FINISH") <=> Bound(cb, "FINISH")
          /\ pc = "done" /\ Bound(cb, "FINISH") => CallsOf("FINISH") # {}
    /\ (InFrame /\ hdr.type = "DONE" /\ at # "dispatch") => ~Invoked("FINISH")

\* C3 as stated: once the DONE frame that ends a multipart batch has been
\* processed, FINISH has been invoked exactly once and multipart is false
C3_Original ==
    (/\ InFrame /\ hdr.type = "DONE" /\ "MULTI" \in hdr.flags
     /\ pc \in {"skip", "done"}
     /\ Bound(cb, "FINISH"))
    => /\ Cardinality(CallsOf("FINISH")) = 1
       /\ ~multipart

\* the datagrams [MULTI, MULTI] then [DONE]: FINISH, the only handler
\* bound, has returned NL_STOP and recvmsgs has returned the count 3
C3_Witness ==
    /\ pc = "done"
    /\ BoundSlots(cb) = {"FINISH"}
    /\ hdr.type = "DONE" /\ "MULTI" \in hdr.flags
    /\ calls = <<[hook |-> "FINISH", ret |-> NL_STOP]>>
    /\ ~multipart
    /\ nrecv = 3 /\ dgrams = 2
    /\ rv = 3

(* ------------------------------- C4 ------------------------------------ *)

\* a handler of a hook slot (not the error callback) has returned r for hdr
HookReturned(r) ==
    /\ InFrame /\ Len(calls) > 0
    /\ LastCall.hook # "ERR"
    /\ LastCall.ret = r

\* every handler invoked for hdr before the last one returned NL_OK
EarlierOk == \A i \in 1 .. (Len(calls) - 1) : calls[i].ret = NL_OK

CheckFailed ==
    IF at = "convert" THEN -NLE_NOMEM
    ELSE IF SeqMismatch /\ ~Bound(cb, "INVALID") THEN -NLE_SEQ_MISMATCH
    ELSE IF AtDispatch /\ hdr.type = "OVERRUN" /\ ~Bound(cb, "OVERRUN")
        THEN -NLE_MSG_OVERFLOW
    ELSE IF /\ AtDispatch /\ hdr.type = "ERROR"
            /\ hdr.len < nlmsg_msg_size(NlmsgerrSize)
            /\ ~Bound(cb, "INVALID")
        THEN -NLE_MSG_TRUNC
    ELSE 0

\* a handler has returned a negative code for hdr, or a check has failed
Failed ==
    IF Len(calls) > 0 /\ LastCall.ret < 0 THEN LastCall.ret ELSE CheckFailed

ReturnStep(r) ==
    /\ pc = "call" /\ hook # "ERR"
    /\ calls' = Append(calls, [hook |-> hook, ret |-> r])

\* C6: when a handler of a hook slot returns NL_SKIP, control goes to the
\* label skip with nothing returned and no error recorded; from there the
\* loop only moves on to the next frame of the datagram (err = 0, one frame
\* less to walk), and no handler is invoked but from the body of a frame.
C6_Skip ==
    [][/\ ReturnStep(NL_SKIP) =>
            /\ pc' = "skip"
            /\ UNCHANGED <<sk, hdr, n, nrecv, dgrams, multipart, interrupted,
                           rv, ret>>
       /\ pc = "skip" =>
            /\ pc' = "while"
            /\ n' = n - 1
            /\ err' = 0
            /\ calls' = calls \/ calls' = << >>
            /\ UNCHANGED <<sk, nrecv, dgrams, multipart, interrupted, rv, ret>>
       /\ pc' = "call" => pc \in {"while", "call"}
       /\ (pc = "while" /\ n > 0 /\ pc' # "done") => nrecv' = nrecv + 1
      ]_vars

\* VALID, the only handler bound, has returned NL_SKIP for the first of two
\* frames of a datagram
C6_Witness ==
    /\ pc = "skip"
    /\ HookReturned(NL_SKIP)
    /\ BoundSlots(cb) = {"VALID"}
    /\ n = 2 /\ nrecv = 1 /\ dgrams = 1
    /\ rv = 0 /\ ret = 0

(* ------------------------------- C7 ------------------------------------ *)

\* MSG_IN is the first handler of a frame and the only one invoked before
\* MSG_IN has returned NL_OK
MsgInFirst ==
    /\ \A i \in CallsOf("MSG_IN") : i = 1
    /\ (pc = "call" /\ hook = "MSG_IN") => calls = << >> /\ at = "msg_in"
    /\ (Bound(cb, "MSG_IN") /\ InFrame) =>
          /\ Invoked("MSG_IN")
          /\ at # "msg_in" => /\ Len(calls) >= 1
                              /\ calls[1] = [hook |-> "MSG_IN", ret |-> NL_OK]

\* frames are taken one by one from the datagram being walked, datagrams one
\* by one from nl_recv, and a handler returns only for the frame taken last
InOrder ==
    /\ nrecv' = nrecv \/ (nrecv' = nrecv + 1 /\ pc = "while" /\ n > 0)
    /\ dgrams' = dgrams \/ (dgrams' = dgrams + 1 /\ pc = "read")
    /\ n' # n => \/ (pc = "read" /\ dgrams' = dgrams + 1)
                 \/ (pc = "skip" /\ n' = n - 1)
                 \/ pc = "idle"
    /\ Len(calls') > Len(calls) =>
         /\ pc = "call"
         /\ calls' = Append(calls, calls'[Len(calls')])
         /\ calls'[Len(calls')].hook = hook
         /\ UNCHANGED <<hdr, nrecv, dgrams, n>>

\* C7: for each frame MSG_IN, when bound, is invoked first, before the
\* sequence check and every classification handler; frames are taken one by
\* one from the datagram being walked, datagrams one by one from nl_recv, and
\* a handler is invoked only for the frame taken last.
C7_Order ==
    /\ []MsgInFirst
    /\ [][InOrder]_vars

\* every slot is bound; for the second frame MSG_IN and SEQ_CHECK have
\* returned NL_OK and VALID is being invoked
C7_Witness ==
    /\ pc = "call" /\ hook = "VALID"
    /\ BoundSlots(cb) = Hooks
    /\ calls = <<[hook |-> "MSG_IN", ret |-> NL_OK],
                 [hook |-> "SEQ_CHECK", ret |-> NL_OK]>>
    /\ nrecv = 2 /\ n = 1

(* ------------------------------- C8 ------------------------------------ *)

\* C8: when recvmsgs ends without error, nl_recvmsgs_report returns the
\* number of frames processed in the invocation and nl_recvmsgs returns 0.
C8_Count ==
    (pc = "done" /\ api = "nl_recvmsgs" /\ rv >= 0) =>
        /\ rv = nrecv
        /\ ret = 0

\* one frame flagged MULTI has been processed, the next nl_recv returns 0
\* and nl_recvmsgs_report returns 0
C8_Miscount ==
    /\ pc = "done" /\ api = "nl_recvmsgs"
    /\ BoundSlots(cb) = {}
    /\ multipart /\ ~interrupted
    /\ hdr.type = "DATA" /\ hdr.flags = {"MULTI"}
    /\ nrecv = 1 /\ dgrams = 1
    /\ rv = 0

(* ------------------------------- C9 ------------------------------------ *)

\* hdr is an ERROR frame that holds a whole struct nlmsgerr
FullError ==
    hdr.type = "ERROR" /\ hdr.len >= nlmsg_msg_size(NlmsgerrSize)

IsAck == FullError /\ hdr.error = 0

IsNack == FullError /\ hdr.error # 0

\* hdr got to the dispatch by type and the slot of its type is empty: a DONE
\* frame with no FINISH handler or an ACK with no ACK handler
DefaultStops ==
    /\ AtDispatch
    /\ \/ (hdr.type = "DONE" /\ ~Bound(cb, "FINISH"))
       \/ (IsAck /\ ~Bound(cb, "ACK"))

\* C9: a DONE frame with the FINISH slot empty, and an ACK with the ACK slot
\* empty, ends the loop as NL_STOP would: the loop has returned, or the frame
\* is the last of its datagram and no further datagram is to be read.
C9_DefaultStop ==
    DefaultStops =>
        \/ pc = "done"
        \/ (pc = "skip" /\ n = 1 /\ ~multipart)
        \/ (pc = "while" /\ n = 0 /\ ~multipart)

\* a DONE frame is the first of two frames of a datagram, only VALID is
\* bound: the loop is about to go on to the second frame
C9_Continues ==
    /\ pc = "skip"
    /\ DefaultStops /\ hdr.type = "DONE"
    /\ BoundSlots(cb) = {"VALID"}
    /\ n = 2 /\ nrecv = 1
    /\ ~multipart

(* ------------------------------- C10 ----------------------------------- *)

\* nl_send_sync is waiting for, or has got, the answer hdr at the dispatch
SyncAnswer == api = "nl_send_sync" /\ wire /\ AtDispatch

\* C10 as amended: in nl_send_sync with auto-ack enabled, an ACK that gets
\* to the dispatch is handed to ack_wait_handler and nl_send_sync returns 0;
\* a NACK that gets to the dispatch makes it return the translated errno
\* when no error callback is bound or the callback returns NL_STOP, the
\* callback's own value when that is negative, and is dropped when the
\* callback returns NL_SKIP or NL_OK: the loop goes on and, ending at the
\* end of a datagram, returns 0.  In every case -NLE_DUMP_INTR is returned
\* instead when a frame carried DUMP_INTR with no DUMP_INTR handler bound.
C10_SendSync ==
    /\ (SyncAnswer /\ IsAck) =>
          \/ /\ pc = "call" /\ hook = "ACK"
             /\ cb.cb_set["ACK"] = "ack_wait_handler"
          \/ /\ pc = "done"
             /\ LastCall = [hook |-> "ACK", ret |-> NL_STOP]
             /\ ret = Surfaced(0)
    /\ (SyncAnswer /\ IsNack /\ pc # "call") =>
          IF cb.cb_err = "NULL"
          THEN pc = "done" /\ ret = Surfaced(-nl_syserr2nlerr(hdr.error))
          ELSE /\ Len(calls) > 0 /\ LastCall.hook = "ERR"
               /\ IF LastCall.ret = NL_STOP
                  THEN /\ pc = "done"
                       /\ ret = Surfaced(-nl_syserr2nlerr(hdr.error))
                  ELSE IF LastCall.ret < 0
                  THEN pc = "done" /\ ret = Surfaced(LastCall.ret)
                  ELSE (pc = "done" /\ ~multipart) => ret = Surfaced(0)

\* C10 as stated: a NACK makes nl_send_sync return a negative code whether
\* or not an error callback is bound
C10_Original ==
    (SyncAnswer /\ IsNack /\ pc = "done") => ret < 0

\* the request went out with sequence 7, the peer answers with a NACK for
\* errno 2, no error callback is bound: -NLE_OBJ_NOTFOUND
C10_Witness ==
    /\ pc = "done"
    /\ SyncAnswer /\ IsNack
    /\ req.nlmsg_seq = Seed /\ hdr.seq = Seed /\ hdr.error = -ENOENT
    /\ cb.cb_err = "NULL"
    /\ nrecv = 1
    /\ ret = -NLE_OBJ_NOTFOUND

(* ------------------------------- C11 ----------------------------------- *)

\* the error callback has returned r for the NACK hdr
ErrReturned(r) ==
    /\ AtDispatch /\ IsNack
    /\ Len(calls) > 0
    /\ LastCall = [hook |-> "ERR", ret |-> r]

\* this step is the return of the error callback with the value r
ErrReturnStep(r) ==
    /\ pc = "call" /\ hook = "ERR"
    /\ calls' = Append(calls, [hook |-> "ERR", ret |-> r])

\* what a NACK at the dispatch leads to, by the error callback's result
NackOutcome ==
    (AtDispatch /\ IsNack) =>
        IF cb.cb_err = "NULL"
        THEN /\ pc = "done"
             /\ ~Invoked("ERR")
             /\ rv = Surfaced(-nl_syserr2nlerr(hdr.error))
        ELSE /\ Invoked("ERR")
             /\ Cardinality(CallsOf("ERR")) <= 1
             /\ ErrReturned(NL_STOP) =>
                  /\ pc = "done"
                  /\ rv = Surfaced(-nl_syserr2nlerr(hdr.error))
             /\ \A r \in RetVals : (r < 0 /\ ErrReturned(r)) =>
                  /\ pc = "done"
                  /\ rv = Surfaced(r)

\* C11 as amended: a NACK that gets to the dispatch invokes the error
\* callback when one is bound.  A negative result aborts the loop with that
\* value; NL_STOP aborts the loop with the translated kernel error, as does
\* a NACK with no error callback bound; NL_SKIP and NL_OK drop the frame and
\* the loop goes on with nothing returned.  An abort returns -NLE_DUMP_INTR
\* instead when a frame carried DUMP_INTR with no DUMP_INTR handler bound.
C11_ErrHook ==
    /\ []NackOutcome
    /\ [][\A r \in {NL_SKIP, NL_OK} : ErrReturnStep(r) =>
             /\ pc' = "skip"
             /\ UNCHANGED <<sk, hdr, n, nrecv, dgrams, multipart, interrupted,
                            rv, ret>>]_vars

\* C11 as stated: NL_STOP from the error callback ends the loop successfully
C11_Original ==
    ErrReturned(NL_STOP) => (pc = "done" /\ rv >= 0)

\* only the error callback is bound; it returns NL_STOP for a NACK carrying
\* errno 2 and recvmsgs returns -NLE_OBJ_NOTFOUND
C11_Witness ==
    /\ pc = "done"
    /\ ErrReturned(NL_STOP)
    /\ BoundSlots(cb) = {"ERR"}
    /\ hdr.error = -ENOENT
    /\ ~interrupted
    /\ nrecv = 1
    /\ rv = -NLE_OBJ_NOTFOUND

(* ------------------------------- C12 ----------------------------------- *)

\* nl_wait_for_ack has returned and the loop ended at the end of a datagram
\* that held at least one frame (not on nl_recv returning 0 or an error)
WaitEnded ==
    /\ pc = "done" /\ api = "nl_wait_for_ack"
    /\ nrecv >= 1 /\ ~multipart

\* C12: nl_wait_for_ack returns 0 only after an ACK has been received during
\* the call: the loop was ended by ack_wait_handler on an ACK frame.
C12_AckOnly ==
    (WaitEnded /\ ret = 0) =>
        /\ AtDispatch /\ IsAck
        /\ LastCall = [hook |-> "ACK", ret |-> NL_STOP]

\* nothing is bound on the socket; the peer sends one datagram holding one
\* frame of a data type with the expected sequence and no flag, and
\* nl_wait_for_ack returns 0
C12_NoAck ==
    /\ WaitEnded
    /\ BoundSlots(s_cb) = {}
    /\ hdr.type = "DATA" /\ hdr.flags = {} /\ hdr.seq = expect0
    /\ calls = << >>
    /\ nrecv = 1 /\ dgrams = 1
    /\ ret = 0

(* ------------------------------- C13 ----------------------------------- *)

\* the first frame of the reply to nl_send_sync is an ACK carrying the
\* sequence of the request
AckForRequest ==
    /\ api = "nl_send_sync" /\ wire
    /\ InFrame /\ nrecv = 1
    /\ IsAck
    /\ hdr.seq = req.nlmsg_seq

\* no handler that runs before the dispatch is bound
NoneBeforeDispatch ==
    BoundSlots(cb) \cap {"MSG_IN", "SEQ_CHECK", "DUMP_INTR", "SEND_ACK"} = {}

\* C13 as amended: when the reply to nl_send_sync is a single ACK whose
\* sequence is both the request's and the endpoint's seq_expect (as it is
\* for a request numbered through NL_AUTO_SEQ), the frame does not carry
\* DUMP_INTR and no handler that runs before the dispatch is bound, then
\* ack_wait_handler is invoked exactly once, seq_expect is advanced by
\* exactly 1 and nl_send_sync returns 0.
C13_SingleAck ==
    (/\ AckForRequest
     /\ hdr.seq = expect0
     /\ "DUMP_INTR" \notin hdr.flags
     /\ NoneBeforeDispatch)
    => /\ sk.s_seq_expect = (expect0 + 1) % SeqModulus
       /\ cb.cb_set["ACK"] = "ack_wait_handler"
       /\ \/ pc = "call" /\ hook = "ACK" /\ calls = << >>
          \/ /\ pc = "done"
             /\ calls = <<[hook |-> "ACK", ret |-> NL_STOP]>>
             /\ ret = 0

\* C13 as stated: the reply only has to carry the sequence of the request
C13_Original ==
    (/\ AckForRequest
     /\ hdr.flags = {}
     /\ BoundSlots(s_cb) = {}
     /\ pc = "done")
    => /\ sk.s_seq_expect = (expect0 + 1) % SeqModulus
       /\ calls = <<[hook |-> "ACK", ret |-> NL_STOP]>>
       /\ ret = 0

\* the request was numbered 7 through NL_AUTO_SEQ, the ACK carries 7:
\* nl_send_sync returns 0 with seq_expect 8
C13_Witness ==
    /\ pc = "done"
    /\ AckForRequest
    /\ BoundSlots(s_cb) = {}
    /\ req.nlmsg_seq = Seed /\ hdr.seq = Seed /\ expect0 = Seed
    /\ hdr.flags = {}
    /\ calls = <<[hook |-> "ACK", ret |-> NL_STOP]>>
    /\ sk.s_seq_expect = Seed + 1 /\ sk.s_seq_next = Seed + 1
    /\ ret = 0

(* ------------------------------- C14 ----------------------------------- *)

\* hdr is an ERROR frame too short to hold a struct nlmsgerr
Truncated ==
    hdr.type = "ERROR" /\ hdr.len < nlmsg_msg_size(NlmsgerrSize)

\* the handler of a protocol violation and the code of its default
ViolationHook == IF hdr.type = "OVERRUN" THEN "OVERRUN" ELSE "INVALID"

ViolationCode ==
    IF hdr.type = "OVERRUN" THEN -NLE_MSG_OVERFLOW ELSE -NLE_MSG_TRUNC

\* hdr is a protocol violation that got to the dispatch
Violation == AtDispatch /\ (hdr.type = "OVERRUN" \/ Truncated)

\* the handler of the violation has been invoked at the dispatch and has
\* returned r
ViolationReturned(r) ==
    /\ Violation /\ pc # "call"
    /\ Len(calls) > 0
    /\ LastCall = [hook |-> ViolationHook, ret |-> r]

\* C14 as amended: an OVERRUN frame, and an ERROR frame shorter than header
\* plus error record, that gets to the dispatch invokes its handler (OVERRUN,
\* INVALID) when bound; when it is not bound the loop ends at that frame and
\* returns -NLE_MSG_OVERFLOW, respectively -NLE_MSG_TRUNC.  When the handler
\* is bound its result governs the loop: NL_STOP ends it with the frame
\* count, a negative value ends it with that value, NL_OK and NL_SKIP let it
\* go on.  Any of these returns is replaced by -NLE_DUMP_INTR when a frame
\* carried DUMP_INTR with no DUMP_INTR handler bound.
C14_Violation ==
    Violation =>
        IF ~Bound(cb, ViolationHook)
        THEN /\ pc = "done"
             /\ rv = Surfaced(ViolationCode)
        ELSE /\ Invoked(ViolationHook)
             /\ ViolationReturned(NL_STOP) =>
                  (pc = "done" /\ rv = Surfaced(nrecv))
             /\ ViolationReturned(-NLE_INVAL) =>
                  (pc = "done" /\ rv = Surfaced(-NLE_INVAL))
             /\ (ViolationReturned(NL_OK) \/ ViolationReturned(NL_SKIP)) =>
                  /\ pc \in {"skip", "while", "read", "done"}
                  /\ (pc = "done" /\ ~multipart) => rv = Surfaced(nrecv)

\* C14 as stated: with the handler not bound recvmsgs returns the code of
\* the violation
C14_Original ==
    (Violation /\ ~Bound(cb, ViolationHook)) =>
        (pc = "done" /\ rv = ViolationCode)

\* nothing is bound; the first frame is an ERROR frame of header size only
C14_Witness ==
    /\ pc = "done"
    /\ Violation /\ Truncated
    /\ BoundSlots(cb) = {}
    /\ ~interrupted
    /\ nrecv = 1
    /\ rv = -NLE_MSG_TRUNC

(* ------------------------------- C15 ----------------------------------- *)

\* a step in which nl_complete_msg ran on the application's message, alone
\* or at the head of nl_send_auto
CompleteStep ==
    /\ pc = "idle"
    /\ req # NoReq
    /\ s_cb' = s_cb
    /\ api' \in {"nl_complete_msg", "nl_complete_msg twice", "nl_send_auto"}

\* the message the step started from has been through nl_complete_msg
AlreadyCompleted ==
    api \in {"nl_complete_msg", "nl_complete_msg twice", "nl_send_auto"}

\* C15: nl_complete_msg replaces the port id by the socket's local port
\* exactly when it was NL_AUTO_PORT; replaces the sequence by the old
\* s_seq_next and counts s_seq_next up by one exactly when it was
\* NL_AUTO_SEQ, leaving both alone otherwise; replaces the protocol by the
\* socket's exactly when it was -1; sets REQUEST; adds ACK exactly when
\* NL_NO_AUTO_ACK is clear; keeps type, length and every other flag.
C15_Complete ==
    [][CompleteStep =>
         /\ req'.nlmsg_pid = (IF req.nlmsg_pid = NL_AUTO_PORT
                              THEN sk.s_local_pid ELSE req.nlmsg_pid)
         /\ (req.nlmsg_seq = NL_AUTO_SEQ =>
               /\ req'.nlmsg_seq = sk.s_seq_next
               /\ sk'.s_seq_next = (sk.s_seq_next + 1) % SeqModulus)
         /\ (req.nlmsg_seq # NL_AUTO_SEQ =>
               /\ req'.nlmsg_seq = req.nlmsg_seq
               /\ sk'.s_seq_next = sk.s_seq_next)
         /\ req'.nm_protocol = (IF req.nm_protocol = -1
                                THEN sk.s_proto ELSE req.nm_protocol)
         /\ "REQUEST" \in req'.nlmsg_flags
         /\ ("ACK" \in req'.nlmsg_flags) <=>
               ("ACK" \in req.nlmsg_flags \/ "NL_NO_AUTO_ACK" \notin sk.s_flags)
         /\ req'.nlmsg_flags \ {"REQUEST", "ACK"}
               = req.nlmsg_flags \ {"REQUEST", "ACK"}
         /\ req'.nlmsg_type = req.nlmsg_type
         /\ req'.nlmsg_len = req.nlmsg_len
         /\ req'.nm_size = req.nm_size
         /\ sk'.s_seq_expect = sk.s_seq_expect
         /\ sk'.s_flags = sk.s_flags]_vars

\* a message built with every field left to the library, completed on a
\* socket that asks for acknowledgements
C15_Witness ==
    /\ api = "nl_complete_msg"
    /\ req.nlmsg_pid = LocalPort
    /\ req.nlmsg_seq = Seed
    /\ sk.s_seq_next = Seed + 1
    /\ req.nm_protocol = NlProto
    /\ req.nlmsg_flags = {"REQUEST", "ACK"}
    /\ req.nlmsg_len = nlmsg_msg_size(4)

(* ------------------------------- C16 ----------------------------------- *)

\* C16: nl_complete_msg run again on a message it has completed, whose
\* port id and sequence are not the NL_AUTO_PORT / NL_AUTO_SEQ values,
\* changes neither the message nor the socket.
C16_Idempotent ==
    [][(/\ CompleteStep
        /\ AlreadyCompleted
        /\ req.nlmsg_pid # NL_AUTO_PORT
        /\ req.nlmsg_seq # NL_AUTO_SEQ)
       => (req' = req /\ sk' = sk)]_vars

\* nl_complete_msg has run a second time on a message that had taken
\* its port id and its sequence from the socket
C16_Witness ==
    /\ api = "nl_complete_msg twice"
    /\ req.nlmsg_pid = LocalPort
    /\ req.nlmsg_seq # NL_AUTO_SEQ
    /\ sk.s_seq_next = (req.nlmsg_seq + 1) % SeqModulus

(* ------------------------------- C17 ----------------------------------- *)

\* the library's own send path returned v to the application
SendReturned(v) ==
    /\ api \in {"nl_send", "nl_send_auto"}
    /\ at = "nl_send"
    /\ ret = v

\* C17: every value nl_send and nl_send_auto return from the library's own
\* send path is negative or is the number of octets written: a value that
\* is not negative means the datagram was written and is its length.
C17_OctetsOrError ==
    (api \in {"nl_send", "nl_send_auto"} /\ at = "nl_send" /\ ret >= 0)
        => (wire /\ ret = req.nlmsg_len)

\* a MSG_OUT handler returned NL_STOP: nl_send_auto returned 2 with
\* nothing written
C17_HookValue ==
    /\ SendReturned(NL_STOP)
    /\ api = "nl_send_auto"
    /\ Bound(s_cb, "MSG_OUT")
    /\ ~wire

(* ------------------------------- C18 ----------------------------------- *)

\* nl_send_sync has ended: "send" when nl_send_auto failed, "ack" when the
\* wait returned 0, "nack" when the wait failed
SyncEnded(how) ==
    /\ api = "nl_send_sync"
    /\ pc = "done"
    /\ CASE how = "send" -> ret < 0 /\ dgrams = 0 /\ ~wire
         [] how = "ack" -> ret = 0 /\ wire
         [] OTHER -> ret < 0 /\ wire

\* C18: once nl_send_sync has been called the message has been freed
\* exactly once, whether the send failed, the wait returned 0 or the wait
\* failed, and nothing touches the message after it was freed.
C18_FreedOnce ==
    /\ [](api = "nl_send_sync" => req.frees = 1)
    /\ [][req.frees >= 1 => req' = req]_vars

\* the request went out, the wait failed and the message was freed once
C18_Witness ==
    /\ SyncEnded("nack")
    /\ dgrams > 0
    /\ req.frees = 1

(* ------------------------------- C19 ----------------------------------- *)

\* nl_send_auto is called on a socket with a replacement for nl_send
SendAutoOverridden ==
    /\ pc = "idle"
    /\ s_cb' = s_cb
    /\ api' = "nl_send_auto"
    /\ s_cb.cb_send_ow # "NULL"

\* nl_recvmsgs is called with a replacement for recvmsgs
RecvmsgsOverridden ==
    /\ pc = "idle"
    /\ pc' # "idle"
    /\ api' = "nl_recvmsgs"
    /\ s_cb.cb_recvmsgs_ow # "NULL"

\* a datagram is handed to the loop
DatagramStep == pc = "read" /\ dgrams' = dgrams + 1

\* the three replacements, each consulted before the built-in stage
OverrideSteps ==
    /\ SendAutoOverridden =>
         /\ req'.nlmsg_pid # NL_AUTO_PORT
         /\ req.nlmsg_seq = NL_AUTO_SEQ =>
               /\ req'.nlmsg_seq = sk.s_seq_next
               /\ sk'.s_seq_next = (sk.s_seq_next + 1) % SeqModulus
         /\ req'.nm_protocol = sk.s_proto
         /\ "REQUEST" \in req'.nlmsg_flags
         /\ at' = "cb_send_ow"
         /\ ret' \in OverrideRets
         /\ ~wire'
    /\ DatagramStep =>
         ((at' = "cb_recv_ow") <=> (cb.cb_recv_ow # "NULL"))
    /\ RecvmsgsOverridden =>
         /\ pc' = "done"
         /\ rv' \in RecvmsgsOverrideRets
         /\ calls' = calls
         /\ dgrams' = dgrams
         /\ hook' = hook
         /\ sk' = sk

\* C19: a bound replacement takes the place of its whole stage and is
\* asked before the built-in one.  nl_send_auto completes the message and
\* returns what cb_send_ow returned, nl_send is not called; recvmsgs takes
\* every datagram from cb_recv_ow and none from nl_recv;
\* nl_recvmsgs_report returns what cb_recvmsgs_ow returned and the loop
\* does not run: no datagram is read, no hook is invoked and s_seq_expect
\* is unchanged.
C19_Overrides == [][OverrideSteps]_vars

\* cb_send_ow took a completed request, then nl_recvmsgs ended with the
\* value of cb_recvmsgs_ow and the loop never ran
C19_Witness ==
    /\ api = "nl_recvmsgs"
    /\ pc = "done"
    /\ s_cb.cb_recvmsgs_ow # "NULL"
    /\ rv = 2
    /\ dgrams = 0
    /\ calls = << >>
    /\ sk.s_seq_expect = Seed
    /\ at = "cb_send_ow"
    /\ "REQUEST" \in req.nlmsg_flags
    /\ ~wire

(* ------------------------------- C20 ----------------------------------- *)

\* a call to fn gave the application a message or changed the one it has
MsgStep(fns) == pc = "idle" /\ api' \in fns /\ arg'.ok /\ req' # NoReq

\* room nlmsg_reserve adds for what the call asked: the length rounded up
\* to the pad
RoomAsked ==
    CHOOSE t \in arg'.len .. arg'.len + NLMSG_ALIGNTO :
       IF arg'.pad = 0 THEN t = arg'.len ELSE t % arg'.pad = 0

\* the length a message has after each function of msg.c
LengthSteps ==
    /\ MsgStep({"nlmsg_alloc", "nlmsg_alloc_simple", "nlmsg_inherit"}) =>
         /\ req'.nlmsg_len = NLMSG_HDRLEN
         /\ req'.nm_size = NLMSG_HDRLEN
    /\ MsgStep({"nlmsg_convert"}) =>
         /\ req'.nlmsg_len = arg'.hdrlen
         /\ req'.nm_size >= arg'.hdrlen
         /\ req'.nm_size < arg'.hdrlen + NLMSG_ALIGNTO
         /\ req'.nm_size % NLMSG_ALIGNTO = 0
    /\ (MsgStep({"nlmsg_put"}) /\ arg'.len = 0) =>
         /\ req'.nlmsg_len = req.nlmsg_len
         /\ req'.nm_size = req.nm_size
    /\ (\/ MsgStep({"nlmsg_reserve", "nlmsg_append"})
        \/ (MsgStep({"nlmsg_put"}) /\ arg'.len > 0)) =>
         /\ req'.nlmsg_len = req.nlmsg_len + RoomAsked
         /\ req'.nm_size = req'.nlmsg_len
         /\ (req.nlmsg_len % NLMSG_ALIGNTO = 0
               /\ arg'.pad % NLMSG_ALIGNTO = 0 /\ arg'.pad # 0)
            => req'.nm_size % NLMSG_ALIGNTO = 0

\* the functions C20 names
MsgFns == {"nlmsg_alloc", "nlmsg_alloc_simple", "nlmsg_inherit",
           "nlmsg_convert", "nlmsg_reserve", "nlmsg_append", "nlmsg_put"}

ReserveStep == pc = "idle" /\ req # NoReq /\ api' = "nlmsg_reserve"

\* len rounded up to a multiple of pad
RoundUp(len, pad) ==
    CHOOSE t \in len .. len + pad : t % pad = 0 /\ t - len < pad

\* the size the room is asked to have
AlignedSize == IF arg'.pad > 0 THEN RoundUp(arg'.len, arg'.pad) ELSE arg'.len

\* the octet at offset i of the buffer nm_nlh
Octet(m, i) == m.data[i - NLMSG_HDRLEN + 1]

\* what a successful nlmsg_reserve does to the message
Reserved ==
    /\ req'.nlmsg_len = req.nlmsg_len + AlignedSize
    /\ req'.nm_size = req'.nlmsg_len
    /\ arg'.off = req.nlmsg_len
    /\ AlignedSize >= arg'.len
    /\ \A i \in (arg'.off + arg'.len) .. (arg'.off + AlignedSize - 1) :
          Octet(req', i) = 0
    /\ \A i \in NLMSG_HDRLEN .. (req.nlmsg_len - 1) :
          Octet(req', i) = Octet(req, i)
    /\ [req' EXCEPT !.nlmsg_len = 0, !.nm_size = 0, !.data = << >>]
          = [req EXCEPT !.nlmsg_len = 0, !.nm_size = 0, !.data = << >>]

\* C21: a successful nlmsg_reserve(m, len, pad), pad 0 or a power of two,
\* makes nlmsg_len the old nlmsg_len plus len rounded up to pad (len for
\* pad 0) and the buffer exactly that long; the room returned starts at
\* the old nlmsg_len and holds at least len octets; its octets behind the
\* first len are zero; the octets the message held and the other header
\* fields are unchanged.  When realloc fails the message is unchanged and
\* no room is returned.
C21_Reserve ==
    [][ReserveStep =>
         /\ arg'.ok => Reserved
         /\ ~arg'.ok => (req' = req /\ arg'.off = -1)]_vars

\* the buffer too grows by exactly the aligned size
C21_Original ==
    [][(ReserveStep /\ arg'.ok) =>
         /\ Reserved
         /\ req'.nm_size = req.nm_size + AlignedSize]_vars

\* one octet reserved with pad 4 in a message that held a payload: three
\* octets of padding, zeroed over what realloc left there
C21_Witness ==
    /\ api = "nlmsg_reserve"
    /\ arg.ok /\ arg.len = 1 /\ arg.pad = NLMSG_ALIGNTO
    /\ arg.off = nlmsg_msg_size(1)
    /\ req.nlmsg_len = nlmsg_msg_size(1) + NLMSG_ALIGNTO
    /\ Octet(req, arg.off) = 255
    /\ \A i \in (arg.off + 1) .. (arg.off + 3) : Octet(req, i) = 0

(* ------------------------------- C22 ----------------------------------- *)

\* C22: nlmsg_ok accepts a header exactly when remaining >= 16, the
\* header's length >= 16 and the header's length <= remaining, for every
\* int remaining, zero and negative ones included, and every header
\* length.
C22_Ok ==
    api = "nlmsg_ok" =>
       ((ret = 1) <=> (n >= NLMSG_HDRLEN /\ hdr.len >= NLMSG_HDRLEN
                         /\ hdr.len <= n))

\* nlmsg_ok accepted a header with a negative remaining
C22_Negative ==
    /\ api = "nlmsg_ok"
    /\ ret = 1
    /\ n = -NLMSG_ALIGNTO
    /\ hdr.len = NLMSG_HDRLEN

(* ------------------------------- C23 ----------------------------------- *)

\* the loop is walking a stream whose frames all have their padding
Walking == api = "walk" /\ WellFormed(stream)

\* C23: the loop over a well-formed stream stands at the start of a frame
\* or at the end of the stream after every step, having stepped over the
\* frames before it in order; each step moves on by the frame's length
\* rounded up to 4; remaining is never negative; it is zero when the loop
\* ends, every frame stepped over.
C23_Walk ==
    /\ [](Walking =>
            /\ n >= 0
            /\ nrecv <= Len(stream.lens)
            /\ stream.size - n = FrameOffset(stream.lens, nrecv + 1)
            /\ (nrecv < Len(stream.lens) => hdr.len = stream.lens[nrecv + 1])
            /\ (pc = "done" => (n = 0 /\ nrecv = Len(stream.lens))))
    /\ [][(Walking /\ nrecv' = nrecv + 1) =>
            \E pad \in 0 .. (NLMSG_ALIGNTO - 1) :
               /\ (hdr.len + pad) % NLMSG_ALIGNTO = 0
               /\ n' = n - (hdr.len + pad)]_vars

\* a stream of three frames, with a frame of 17 octets in it, walked to
\* its end
C23_Witness ==
    /\ api = "walk"
    /\ pc = "done"
    /\ WellFormed(stream)
    /\ Len(stream.lens) = MaxFrames
    /\ stream.lens[1] = nlmsg_msg_size(1)
    /\ nrecv = MaxFrames
    /\ n = 0

(* ------------------------------- C24 ----------------------------------- *)

\* a successful nlmsg_put on a message as nlmsg_alloc returned it
PutStep ==
    /\ pc = "idle"
    /\ req = nlmsg_alloc
    /\ api' = "nlmsg_put"
    /\ arg'.ok

\* a successful nlmsg_append
AppendStep ==
    /\ pc = "idle"
    /\ req # NoReq
    /\ api' = "nlmsg_append"
    /\ arg'.ok

\* the header read back holds what nlmsg_put was handed
HeaderReadBack ==
    /\ req'.nlmsg_pid = arg'.pid
    /\ req'.nlmsg_seq = arg'.seq
    /\ req'.nlmsg_type = ReqType
    /\ req'.nlmsg_flags = arg'.flags
    /\ req'.nlmsg_len = NLMSG_HDRLEN + NLMSG_ALIGN(arg'.len)

\* the data stands behind all the message held, which is as it was
AppendedBehind ==
    /\ arg'.off = req.nlmsg_len
    /\ req'.nlmsg_len >= req.nlmsg_len + arg'.len
    /\ \A i \in arg'.off .. (arg'.off + arg'.len - 1) :
          Octet(req', i) = arg'.octet
    /\ \A i \in NLMSG_HDRLEN .. (req.nlmsg_len - 1) :
          Octet(req', i) = Octet(req, i)
    /\ [req' EXCEPT !.nlmsg_len = 0, !.nm_size = 0, !.data = << >>]
          = [req EXCEPT !.nlmsg_len = 0, !.nm_size = 0, !.data = << >>]

\* C24: after a successful nlmsg_put(m, port, seq, type, payload, flags)
\* on a freshly allocated message the header holds the same port, seq,
\* type and flags and a length of 16 + payload rounded up to 4; a
\* successful nlmsg_append puts its octets behind everything the message
\* held and leaves that and the header fields as they were, so the data
\* of successive appends is found in append order with identical octets.
C24_RoundTrip ==
    [][/\ PutStep => HeaderReadBack
       /\ AppendStep => AppendedBehind]_vars

\* nlmsg_put with a payload of one octet, then one octet 2 and one octet 3
\* appended
C24_Witness ==
    /\ api = "nlmsg_append"
    /\ arg.ok /\ arg.octet = 3
    /\ req.nlmsg_pid = LocalPort
    /\ req.nlmsg_seq = Seed + 2
    /\ req.nlmsg_type = ReqType
    /\ req.nlmsg_len = nlmsg_msg_size(NLMSG_ALIGNTO) + 2
    /\ Octet(req, nlmsg_msg_size(NLMSG_ALIGNTO)) = 2
    /\ Octet(req, nlmsg_msg_size(NLMSG_ALIGNTO) + 1) = 3

(* ------------------------------- C25 ----------------------------------- *)

\* the application calls nl_connect
ConnectStep == pc = "idle" /\ api' = "nl_connect"

\* no call of nl_connect failed and the address reported is a netlink one
NothingFailed ==
    conn'.fail = "none" /\ conn'.sock.s_local.nl_family = AF_NETLINK

\* C25: nl_connect on a socket that is open returns -NLE_BAD_SOCK and
\* leaves the socket as it was: its descriptor stays open, protocol and
\* local address are not modified.  nl_connect right after nl_close does
\* not return -NLE_BAD_SOCK, and returns 0 with a descriptor that is open
\* when no system call fails.
C25_AlreadyOpen ==
    [][/\ (ConnectStep /\ conn.sock.s_fd # -1) =>
             /\ ret' = -NLE_BAD_SOCK
             /\ conn'.sock = conn.sock
             /\ conn'.open = conn.open
             /\ conn.sock.s_fd \in conn'.open
       /\ (ConnectStep /\ api = "nl_close") =>
             /\ ret' # -NLE_BAD_SOCK
             /\ NothingFailed =>
                  (ret' = 0 /\ conn'.sock.s_fd \in conn'.open)]_vars

\* a socket connected, closed and connected again refuses another
\* nl_connect with a different protocol
C25_Witness ==
    /\ api = "nl_connect"
    /\ ret = -NLE_BAD_SOCK
    /\ conn.closed
    /\ conn.sock.s_fd \in conn.open
    /\ conn.sock.s_proto = NlProto
    /\ conn.protocol = NETLINK_ROUTE

(* ------------------------------- C26 ----------------------------------- *)

\* C26: when a step of nl_connect on a closed socket fails (socket,
\* buffer size, bind, getsockname, the length or the family of the
\* address), the call returns a negative code, the descriptor it opened is
\* closed again, s_fd is -1 and s_proto is as before; when none fails it
\* returns 0, the descriptor is open and s_proto is the protocol asked for.
C26_Failure ==
    [][(ConnectStep /\ conn.sock.s_fd = -1) =>
          /\ ~NothingFailed =>
                /\ ret' < 0
                /\ conn'.sock.s_fd = -1
                /\ conn'.open = conn.open
                /\ conn'.sock.s_proto = conn.sock.s_proto
          /\ NothingFailed =>
                /\ ret' = 0
                /\ conn'.sock.s_fd \in Fds
                /\ conn'.open = conn.open \cup {conn'.sock.s_fd}
                /\ conn'.sock.s_proto = conn'.protocol]_vars

\* the last test of nl_connect failed: the address is not a netlink one,
\* the descriptor is closed again and the protocol is not stored
C26_Witness ==
    /\ api = "nl_connect"
    /\ ret = -NLE_AF_NOSUPPORT
    /\ conn.sock.s_local.nl_family = AF_UNSPEC
    /\ conn.sock.s_fd = -1
    /\ conn.open = {}
    /\ conn.protocol = NlProto
    /\ conn.sock.s_proto = 0

(* ------------------------------- C27 ----------------------------------- *)

\* the application calls nl_close
CloseStep == pc = "idle" /\ api' = "nl_close"

\* what nl_close does to the socket
Closed ==
    /\ conn'.sock.s_fd = -1
    /\ conn'.sock.s_proto = 0
    /\ conn'.open = conn.open \ {conn.sock.s_fd}
    /\ conn'.sock.s_local = conn.sock.s_local

\* C27: nl_close closes the descriptor (s_fd becomes -1, s_proto 0) and
\* leaves the socket's callback set and its reference count as they are;
\* a second nl_close changes nothing.
C27_Close ==
    [][CloseStep =>
          /\ Closed
          /\ heap' = heap
          /\ api = "nl_close" =>
                (conn'.sock = conn.sock /\ conn'.open = conn.open)]_vars

\* nl_close of an open socket takes one from the count of its callback set
C27_Original ==
    [][(CloseStep /\ conn.sock.s_fd >= 0) =>
          /\ Closed
          /\ heap'.obj[1].cb_refcnt = heap.obj[1].cb_refcnt - 1]_vars

\* a connected socket closed while the application holds a second
\* reference to its callback set: both references are still counted
C27_Witness ==
    /\ api = "nl_close"
    /\ conn.closed
    /\ conn.sock.bufsize_set
    /\ conn.sock.s_fd = -1
    /\ conn.sock.s_proto = 0
    /\ conn.open = {}
    /\ heap.obj[1].cb_refcnt = 2

(* ------------------------------- C28 ----------------------------------- *)

\* nl_cb_clone returned a set
CloneStep == pc = "idle" /\ api' = "nl_cb_clone" /\ heap'.new # 0

\* a call on one set that is not nl_cb_clone
CbStep ==
    /\ pc = "idle"
    /\ api' \in {"nl_cb_set", "nl_cb_err", "nl_cb_overwrite", "nl_cb_get",
                 "nl_cb_put"}

\* the copy has the original's hooks, arguments, error hook and overrides
SameTable(o, p) ==
    /\ o.cb = p.cb
    /\ o.cb_args = p.cb_args
    /\ o.cb_err_arg = p.cb_err_arg

\* C28: nl_cb_clone returns a callback set with reference count 1 whose
\* hook slots, hook arguments, error hook and three overrides equal the
\* original's; the original, its reference count included, is unchanged;
\* a later nl_cb_set, nl_cb_err, override, nl_cb_get or nl_cb_put on one
\* set leaves every other set as it was.
C28_Clone ==
    [][/\ CloneStep =>
             /\ heap'.new # heap'.on
             /\ heap'.obj[heap'.new].cb_refcnt = 1
             /\ SameTable(heap'.obj[heap'.new], heap.obj[heap'.on])
             /\ heap'.obj[heap'.on] = heap.obj[heap'.on]
       /\ CbStep =>
             \A b \in Addrs \ {heap'.on} : heap'.obj[b] = heap.obj[b]]_vars

\* a clone of a set that has two references, a hook, an error hook and an
\* override; the clone has since got a hook the original does not have
C28_Witness ==
    /\ api = "nl_cb_set"
    /\ heap.on = 2
    /\ heap.obj[1].cb_refcnt = 2
    /\ heap.obj[2].cb_refcnt = 1
    /\ heap.obj[1].cb.cb_set["VALID"] = "custom"
    /\ heap.obj[1].cb.cb_err = "custom"
    /\ heap.obj[1].cb.cb_send_ow = "custom"
    /\ heap.obj[1].cb.cb_set["ACK"] = "NULL"
    /\ heap.obj[2] = [cb_set_obj(heap.obj[1], "ACK", "custom", 1)
                         EXCEPT !.cb_refcnt = 1]

(* ------------------------------- C29 ----------------------------------- *)

\* nl_pickup has returned
PickupDone == api = "nl_pickup" /\ pc = "done"

\* what *result holds when nl_pickup has returned
Result == pickup_result(pick, ret)

\* C29: when nl_pickup returns without error, *result is the object of the
\* first VALID frame the parser made an object of; when it returns an
\* error *result is not written.
C29_First ==
    PickupDone =>
       /\ (ret >= 0 /\ pick.stored # << >>) => Result = pick.stored[1]
       /\ ret < 0 => Result = Untouched

\* two VALID frames were parsed and nl_pickup returned the object of the
\* second; the reference taken to the first is held by nobody
C29_Witness ==
    /\ PickupDone
    /\ ret = 0
    /\ pick.stored = <<1, 2>>
    /\ Result = 2

(* ------------------------------- C30 ----------------------------------- *)

\* nl_recv has returned and no system call failed
RecvDone == api = "nl_recv" /\ rx.at = "done" /\ ~rx.failed

\* the datagram nl_recv found first was larger than its buffer
Oversized == rx.first # NoDgram /\ rx.first.size > rx.size0

\* C30: when the peer's datagram is larger than the receive buffer,
\* nl_recv grows the buffer to the size of the datagram, calls recvmsg
\* once more and returns the full octet count of that same datagram, all
\* its octets in *buf, with and without NL_MSG_PEEK.
C30_Grow ==
    (RecvDone /\ Oversized) =>
       /\ ret = rx.first.size
       /\ rx.iov_len = rx.first.size
       /\ rx.buf = [id |-> rx.first.id, octets |-> rx.first.size]
       /\ rx.calls = 2

\* without NL_MSG_PEEK the first datagram was larger than the page: it
\* left the queue truncated, the buffer kept its size and nl_recv returned
\* the second datagram
C30_Witness ==
    /\ RecvDone
    /\ ~rx.peek
    /\ Oversized
    /\ rx.first.id = 1
    /\ rx.iov_len = rx.size0
    /\ rx.buf = [id |-> 2, octets |-> PageSize]
    /\ ret = PageSize

(* ------------------------------- C31 ----------------------------------- *)

\* C31: recvmsgs frees no buffer, credentials or message twice, and when
\* it has returned, by whatever path, every one it or recv allocated
\* during the invocation has been freed.
C31_Freed ==
    /\ \A i \in 1 .. Len(mem.frees) : mem.frees[i] <= 1
    /\ mem.at = "done" => \A i \in 1 .. Len(mem.frees) : mem.frees[i] = 1

\* recvmsgs returned from a frame of the second datagram of a multipart
\* reply with credentials: two buffers, two credentials and at least three
\* messages
C31_Witness ==
    /\ mem.at = "done"
    /\ mem.dgrams = 2
    /\ mem.msg # 0
    /\ mem.creds # 0
    /\ Len(mem.frees) >= 7

(* ------------------------------- C32 ----------------------------------- *)

\* the frame hdr has passed MSG_IN and the sequence check
Classified == InFrame /\ at \in {"dump_intr", "send_ack", "dispatch"}

\* C32: once the frame hdr has passed MSG_IN and the sequence check,
\* s_seq_expect is one more (modulo the width of the field) than it was
\* when the frame was fetched if the frame's type is DONE, ERROR, NOOP or
\* OVERRUN, with or without MULTI and whatever the handlers invoked later
\* return, and the same for every other type; before that it is unchanged;
\* and no other step of the send and receive paths changes s_seq_expect.
C32_Expect ==
    /\ [](InFrame =>
            sk.s_seq_expect =
               IF Classified /\ hdr.type \in {"DONE", "ERROR", "NOOP", "OVERRUN"}
               THEN (expect0 + 1) % SeqModulus
               ELSE expect0)
    /\ [][sk'.s_seq_expect # sk.s_seq_expect =>
             (~Classified /\ Classified')]_vars

\* a DONE frame with MULTI set whose handler returned an error: recvmsgs
\* has returned the error and s_seq_expect is one more than before
C32_Witness ==
    /\ pc = "done"
    /\ Classified
    /\ hdr.type = "DONE"
    /\ "MULTI" \in hdr.flags
    /\ calls # << >>
    /\ LastCall = [hook |-> "FINISH", ret |-> -NLE_INVAL]
    /\ rv = -NLE_INVAL
    /\ sk.s_seq_expect = (expect0 + 1) % SeqModulus

(* ------------------------------- C33 ----------------------------------- *)

\* the frames of the datagram are exhausted
Exhausted == pc = "while" /\ n = 0

SetStep == set'.count = set.count + 1

\* the struct nl_cb the call acted on, before and after it
SetBefore == heap.obj[set'.on]

SetAfter == heap'.obj[set'.on]

\* type and kind of the call are in range
SetInRange ==
    /\ set'.type \in 0 .. NL_CB_TYPE_MAX
    /\ set'.kind \in 0 .. NL_CB_KIND_MAX

\* C34: nl_cb_set with type or kind out of range returns -NLE_RANGE and
\* leaves the callback set as it was; otherwise it returns 0, the slot of
\* that type holds func for kind CUSTOM and the preset's function (or
\* nothing, where the table has none) for any other kind, its argument
\* is arg, and every other slot and argument, the error hook and its
\* argument, the overrides and the reference count are as before.
C34_Set ==
    [][SetStep =>
         /\ \A a \in Addrs \ {set'.on} : heap'.obj[a] = heap.obj[a]
         /\ IF ~SetInRange
            THEN set'.ret = -NLE_RANGE /\ SetAfter = SetBefore
            ELSE LET t == TypeOf[set'.type + 1]
                 IN  /\ set'.ret = 0
                     /\ SetAfter.cb.cb_set[t] =
                           IF set'.kind = NL_CB_CUSTOM THEN set'.func
                           ELSE cb_def(set'.type, set'.kind)
                     /\ SetAfter.cb_args[t] = set'.arg
                     /\ \A u \in Hooks \ {t} :
                          /\ SetAfter.cb.cb_set[u] = SetBefore.cb.cb_set[u]
                          /\ SetAfter.cb_args[u] = SetBefore.cb_args[u]
                     /\ SetAfter.cb.cb_err = SetBefore.cb.cb_err
                     /\ SetAfter.cb_err_arg = SetBefore.cb_err_arg
                     /\ \A ow \in Overrides :
                          SetAfter.cb[ow] = SetBefore.cb[ow]
                     /\ SetAfter.cb_refcnt = SetBefore.cb_refcnt]_vars

\* a preset replaced a custom handler of a set that has an error hook, an
\* override and two references, and a call out of range followed
C34_Witness ==
    /\ set.count = 2
    /\ set.ret = -NLE_RANGE
    /\ set.type \in 0 .. NL_CB_TYPE_MAX
    /\ set.kind > NL_CB_KIND_MAX
    /\ heap.obj[1].cb.cb_set["VALID"] = "nl_valid_handler_debug"
    /\ heap.obj[1].cb_args["VALID"] = 2
    /\ heap.obj[1].cb.cb_err = "custom"
    /\ heap.obj[1].cb.cb_send_ow = "custom"
    /\ heap.obj[1].cb_refcnt = 2

(* ------------------------------- C35 ----------------------------------- *)

\* nl_wait_for_ack or nl_pickup is running or has returned
TempCalled == api \in {"nl_wait_for_ack", "nl_pickup"} /\ pc # "idle"

\* C35: from the call of nl_wait_for_ack or nl_pickup to its return, and
\* after it, sk->s_cb is as it was at the call: its slots, arguments,
\* error hook, overrides and reference count; the clone holds one
\* reference while nl_recvmsgs runs, and when the function has returned
\* the clone has been put once and freed once and is no longer allocated
\* (no clone exists when nl_cb_clone failed).
C35_OwnSet ==
    TempCalled =>
       /\ heap.obj[1] = temp.before
       /\ s_cb = temp.before.cb
       /\ IF pc = "returned"
          THEN /\ ~Live(2)
               /\ temp.puts = (IF temp.cb = 0 THEN 0 ELSE 1)
               /\ temp.frees = temp.puts
          ELSE /\ temp.cb = 2
               /\ heap.obj[2].cb_refcnt = 1
               /\ temp.puts = 0
               /\ temp.frees = 0

\* nl_pickup returned a failure of a hook of the socket's own set, which
\* has a hook, an error hook and two references
C35_Witness ==
    /\ pc = "returned"
    /\ api = "nl_pickup"
    /\ temp.cb = 2
    /\ temp.frees = 1
    /\ ret < 0
    /\ ret # -NLE_NOMEM
    /\ heap.obj[1].cb_refcnt = 2
    /\ heap.obj[1].cb.cb_set["ACK"] = "custom"
    /\ heap.obj[1].cb.cb_err = "custom"
    /\ nrecv >= 1

(* ------------------------------- C36 ----------------------------------- *)

\* C36: a callback set made by nl_cb_alloc or nl_cb_clone holds, as long
\* as it is allocated, the count 1 + (calls of nl_cb_get) - (calls of
\* nl_cb_put) and has not been freed; it is freed, once, when that number
\* has come to 0; no step frees a set but the nl_cb_put that finds the
\* count at 1.
C36_Count ==
    /\ [](\A a \in Addrs :
            refs[a].made =>
               IF Live(a)
               THEN /\ heap.obj[a].cb_refcnt =
                          1 + refs[a].gets - refs[a].puts
                    /\ refs[a].frees = 0
               ELSE /\ 1 + refs[a].gets - refs[a].puts = 0
                    /\ refs[a].frees = 1)
    /\ [][\A a \in Addrs :
            (Live(a) /\ ~Live(a)') =>
               /\ api' = "nl_cb_put"
               /\ heap'.on = a
               /\ heap.obj[a].cb_refcnt = 1]_vars

\* a clone that was got three times has been put four times and is gone
C36_Witness ==
    /\ refs[2].made
    /\ ~Live(2)
    /\ refs[2].gets = 3
    /\ refs[2].puts = 4
    /\ refs[2].frees = 1
    /\ api = "nl_cb_put"
    /\ heap.obj[1].cb_refcnt = 2

(* ------------------------------- C37 ----------------------------------- *)

\* nl_send_sync has returned
SyncReturned == pc = "done" /\ api = "nl_send_sync"

\* the call was made with s_seq_next = s_seq_expect and a message that
\* left its sequence to the library, on a socket with auto-ack and the
\* built-in sequence check
InStepCall ==
    /\ "NL_NO_AUTO_ACK" \notin sk.s_flags
    /\ ~Bound(s_cb, "SEQ_CHECK")
    /\ req.nlmsg_seq = Seed

\* all that recvmsgs was given is the one answer to the request, if the
\* request reached the peer, and nothing if it did not
OneAnswer ==
    /\ nrecv <= 1
    /\ ~wire => (nrecv = 0 /\ dgrams = 0)
    /\ nrecv = 1 => InFrame
    /\ InFrame => (hdr.type = "ERROR" /\ hdr.seq = req.nlmsg_seq)

\* the statement as claimed: in step again on every outcome
C37_Original ==
    (SyncReturned /\ InStepCall /\ OneAnswer) =>
        sk.s_seq_next = sk.s_seq_expect

\* C37 as amended: when nl_send_sync was called with s_seq_next =
\* s_seq_expect and an AUTO_SEQ message, auto-ack enabled and the built-in
\* sequence check, and the peer answers a request it gets with one ACK or
\* NACK of that sequence, then at the return s_seq_next = s_seq_expect if
\* the answer reached the classification in recvmsgs, and s_seq_next is
\* one ahead of s_seq_expect on every other outcome: a send that failed or
\* was held back by the MSG_OUT hook, a failure of recv or nlmsg_convert,
\* a MSG_IN hook that did not return NL_OK.
C37_InStep ==
    (SyncReturned /\ InStepCall /\ OneAnswer) =>
        sk.s_seq_next =
           IF wire /\ nrecv = 1 /\ Classified
           THEN sk.s_seq_expect
           ELSE (sk.s_seq_expect + 1) % SeqModulus

\* the request was acknowledged and the counters are in step
C37_Witness ==
    /\ SyncReturned
    /\ InStepCall
    /\ OneAnswer
    /\ wire
    /\ IsAck
    /\ Classified
    /\ ret = 0
    /\ sk.s_seq_next = (Seed + 1) % SeqModulus
    /\ sk.s_seq_expect = (Seed + 1) % SeqModulus

(* ------------------------------- C38 ----------------------------------- *)

\* the loop test holds for hdr: the body runs for it, which in recvmsgs
\* builds a message from it with nlmsg_convert and consults the hooks
BodyRuns == api = "walk" /\ pc = "walk" /\ nlmsg_ok(hdr.len, n)

\* C38: every frame the body of the loop runs for lies within the octets
\* of the datagram: its offset plus its nlmsg_len does not exceed their
\* number, whatever the datagram holds, frames without padding behind
\* them included.
C38_Within ==
    BodyRuns => (stream.size - n) + hdr.len <= stream.size

\* the last frame of the datagram has 17 octets and no padding behind it;
\* the loop has stepped over it and its test accepts what stands behind
\* the datagram
C38_Beyond ==
    /\ BodyRuns
    /\ ~WellFormed(stream)
    /\ stream.lens = <<nlmsg_msg_size(1)>>
    /\ stream.size = nlmsg_msg_size(1)
    /\ nrecv = 1
    /\ n = nlmsg_msg_size(1) - NLMSG_ALIGN(nlmsg_msg_size(1))
    /\ hdr.len = NLMSG_HDRLEN

(* ------------------------------- C39 ----------------------------------- *)

\* nl_complete_msg runs on a message whose sequence reads NL_AUTO_SEQ
StampStep == CompleteStep /\ req.nlmsg_seq = NL_AUTO_SEQ

\* the statement as claimed: the sequence stamped is never NL_AUTO_SEQ and
\* a message that was completed is not stamped again
C39_Original ==
    [][/\ StampStep =>
             /\ req'.nlmsg_seq = sk.s_seq_next
             /\ sk'.s_seq_next = (sk.s_seq_next + 1) % SeqModulus
             /\ req'.nlmsg_seq # NL_AUTO_SEQ
       /\ (CompleteStep /\ AlreadyCompleted) =>
             /\ req'.nlmsg_seq = req.nlmsg_seq
             /\ sk'.s_seq_next = sk.s_seq_next]_vars

\* C39 as amended: each completion of a message whose sequence reads
\* NL_AUTO_SEQ stamps it with s_seq_next as it was and counts s_seq_next
\* up by one modulo the width; the stamped sequence is NL_AUTO_SEQ exactly
\* when s_seq_next was NL_AUTO_SEQ (after it wrapped), and only then a
\* completed message is stamped again, with the next number, by a further
\* completion; a message whose sequence does not read NL_AUTO_SEQ is left
\* with it and takes no number.
C39_Stamp ==
    [][/\ StampStep =>
             /\ req'.nlmsg_seq = sk.s_seq_next
             /\ sk'.s_seq_next = (sk.s_seq_next + 1) % SeqModulus
             /\ (req'.nlmsg_seq = NL_AUTO_SEQ) <=>
                   (sk.s_seq_next = NL_AUTO_SEQ)
       /\ (CompleteStep /\ req.nlmsg_seq # NL_AUTO_SEQ) =>
             /\ req'.nlmsg_seq = req.nlmsg_seq
             /\ sk'.s_seq_next = sk.s_seq_next
       /\ (CompleteStep /\ AlreadyCompleted
             /\ req'.nlmsg_seq # req.nlmsg_seq) =>
             /\ req.nlmsg_seq = NL_AUTO_SEQ
             /\ sk.s_seq_next = (NL_AUTO_SEQ + 1) % SeqModulus]_vars

\* s_seq_next has wrapped: a message was stamped with NL_AUTO_SEQ
C39_Witness ==
    /\ api = "nl_complete_msg"
    /\ req.nlmsg_seq = NL_AUTO_SEQ
    /\ sk.s_seq_next = (NL_AUTO_SEQ + 1) % SeqModulus
    /\ "REQUEST" \in req.nlmsg_flags

(* ------------------------------- C40 ----------------------------------- *)

\* recvmsgs has been called for a batch
InBatch == api = "nl_recvmsgs" /\ batch.total > 0

\* C40: recvmsgs with the default callback set, given a multipart batch
\* (frames with NLM_F_MULTI and the expected sequence, the last one a DONE
\* frame), returns; it asks recv for a datagram only while the datagram
\* with the DONE frame has not been delivered; unless an allocation
\* failed it returns when it has read every datagram and every frame of
\* the batch, behind the DONE frame, with the number of frames or with
\* -NLE_DUMP_INTR.
C40_Batch ==
    /\ (InBatch /\ pc = "read") ~> (InBatch /\ pc = "done")
    /\ []((InBatch /\ pc = "read") => batch.left > 0)
    /\ []((InBatch /\ pc = "done" /\ at # "convert") =>
            /\ batch.left = 0
            /\ n = 0
            /\ nrecv = batch.total
            /\ hdr.type = "DONE"
            /\ ~multipart
            /\ rv = Surfaced(nrecv))

\* a batch of four frames in three datagrams has been read to its end
C40_Witness ==
    /\ InBatch
    /\ pc = "done"
    /\ batch = [total |-> MaxBatch, left |-> 0, sent |-> 3]
    /\ nrecv = MaxBatch
    /\ rv = MaxBatch
    /\ hdr.type = "DONE"

====
